---- MODULE Spec2Model ----
(***************************************************************************)
(* Model of pint's PromQL label-flow analyzer                              *)
(* (internal/parser/utils/source.go).                                      *)
(*                                                                         *)
(* A PromQL expression is a sequence of AST nodes in post-order: every     *)
(* node follows its operands and records the size of its subtree, so the   *)
(* operands of node i are found at i-1 (the last operand) and at           *)
(* i-1-size(i-1) (the operand before it).  LabelsSource is the recursive   *)
(* walk of source.go over that tree.                                       *)
(*                                                                         *)
(* Go values are modelled by what the analyzer can observe of them:        *)
(*   - a []string / []float64 slice is a sequence (nil and empty are the   *)
(*     same sequence);                                                     *)
(*   - ReturnedNumbers is a reference into a heap of arrays while the      *)
(*     walk runs, because copies of a Source share its backing array and   *)
(*     parseBinOps writes into it in place; LabelsSource returns the       *)
(*     sources with the arrays read from the final heap;                   *)
(*   - ExcludeReason is a set of entries with distinct keys;               *)
(*   - a source fragment expr[pos.Start:pos.End] is the index of the node  *)
(*     whose position range it is cut from.                                *)
(*                                                                         *)
(* The checks (internal/checks) run on a rule whose expression is that     *)
(* AST; rule is the rule and problems what the check that ran returned.    *)
(*                                                                         *)
(* readRules (internal/discovery) turns the content of a rule file into    *)
(* entries; file is what it read and returned what it returned.            *)
(***************************************************************************)
EXTENDS Integers, Sequences, FiniteSets, TLC

VARIABLES nodes, src, rule, problems, file, returned

vars == <<nodes, src, rule, problems, file, returned>>

\* Largest number of AST nodes of an expression handed to LabelsSource.
MaxNodes == 3

(***************************************************************************)
(* Slices and maps                                                         *)
(***************************************************************************)

Range(s) == {s[i] : i \in 1..Len(s)}

MapSeq(F(_), s) == IF s = <<>> THEN <<>> ELSE [k \in 1..Len(s) |-> F(s[k])]

\* slices.Contains
Contains(sl, v) == v \in Range(sl)

\* slices.Index, 1-based; 0 when v is not in sl (Go: -1).
Index(sl, v) ==
    IF Contains(sl, v) THEN CHOOSE i \in 1..Len(sl) : sl[i] = v /\ \A j \in 1..(i-1) : sl[j] # v
    ELSE 0

\* slices.Delete(sl, idx, idx+1): the elements after idx move one place left.
Delete(sl, idx) == SubSeq(sl, 1, idx - 1) \o SubSeq(sl, idx + 1, Len(sl))

RECURSIVE removeFromSlice(_, _)
removeFromSlice(sl, s) ==
    IF s = <<>> THEN sl
    ELSE LET idx == Index(sl, Head(s)) IN
         IF idx > 0
         THEN IF Len(sl) = 1 THEN <<>>
              ELSE removeFromSlice(Delete(sl, idx), Tail(s))
         ELSE removeFromSlice(sl, Tail(s))

RECURSIVE appendToSlice(_, _)
appendToSlice(dst, values) ==
    IF values = <<>> THEN dst
    ELSE appendToSlice(IF Contains(dst, Head(values)) THEN dst ELSE Append(dst, Head(values)),
                       Tail(values))

\* An ExcludeReason map: a set of [key, Reason, Fragment] with distinct keys.
Keys(m) == {e.key : e \in m}

deleteKey(m, key) == {e \in m : e.key # key}

RECURSIVE deleteKeys(_, _)
deleteKeys(m, ks) ==
    IF ks = <<>> THEN m ELSE deleteKeys(deleteKey(m, Head(ks)), Tail(ks))

setInMap(dst, key, val) ==
    deleteKey(dst, key) \cup {[key |-> key, Reason |-> val.Reason, Fragment |-> val.Fragment]}

ExcludedLabel(reason, fragment) == [Reason |-> reason, Fragment |-> fragment]

RECURSIVE setAllInMap(_, _, _)
setAllInMap(dst, ks, val) ==
    IF ks = <<>> THEN dst ELSE setAllInMap(setInMap(dst, Head(ks), val), Tail(ks), val)

(***************************************************************************)
(* Sources                                                                 *)
(***************************************************************************)

MetricName == "__name__"

guaranteedLabelsMatches == <<"MatchEqual", "MatchRegexp">>

\* The zero value of Source (var s Source).  Call is the index of the call
\* node (0: nil); ReturnedNumbers is a heap reference (0: nil slice).
ZeroSource ==
    [Selectors |-> <<>>, Call |-> 0, ExcludeReason |-> {}, Operation |-> "",
     Returns |-> "", ReturnedNumbers |-> 0, IncludedLabels |-> <<>>,
     ExcludedLabels |-> <<>>, GuaranteedLabels |-> <<>>, Type |-> "UnknownSource",
     FixedLabels |-> FALSE, IsDead |-> FALSE, AlwaysReturns |-> FALSE]

\* Names of the matchers of one selector whose type is in matches, in order,
\* without __name__.
RECURSIVE matchedNames(_, _)
matchedNames(matches, lms) ==
    IF lms = <<>> THEN <<>>
    ELSE LET lm == Head(lms) IN
         IF lm.Name # MetricName /\ Contains(matches, lm.Type)
         THEN <<lm.Name>> \o matchedNames(matches, Tail(lms))
         ELSE matchedNames(matches, Tail(lms))

RECURSIVE allMatchedNames(_, _, _)
allMatchedNames(ns, matches, selectors) ==
    IF selectors = <<>> THEN <<>>
    ELSE matchedNames(matches, ns[Head(selectors)].LabelMatchers)
         \o allMatchedNames(ns, matches, Tail(selectors))

\* nameCount[name]: how many matchers (of all selectors) added name.
nameCount(all, name) == Cardinality({i \in 1..Len(all) : all[i] = name})

\* removeInOrder that leaves the loop after the first removal.
RECURSIVE removeFirstInOrder(_, _, _, _)
removeFirstInOrder(names, order, all, n) ==
    IF order = <<>> THEN names
    ELSE IF nameCount(all, Head(order)) # n
         THEN removeFromSlice(names, <<Head(order)>>)
         ELSE removeFirstInOrder(names, Tail(order), all, n)

\* The second loop of labelsFromSelectors, for name, cnt := range nameCount:
\* it visits the keys of the map in the order the runtime picks (order, a
\* sequence of the keys) and removes every name whose count is not
\* len(selectors).
RECURSIVE removeInOrder(_, _, _, _)
removeInOrder(names, order, all, n) ==
    IF order = <<>> THEN names
    ELSE removeInOrder(IF nameCount(all, Head(order)) # n
                       THEN removeFromSlice(names, <<Head(order)>>)
                       ELSE names,
                       Tail(order), all, n)

\* labelsFromSelectors when the map is visited in the given order.
labelsFromSelectorsIn(ns, matches, selectors, order) ==
    LET all == allMatchedNames(ns, matches, selectors) IN
    removeInOrder(appendToSlice(<<>>, all), order, all, Len(selectors))

\* The keys of nameCount, in the order of their first insertion: one of the
\* orders the map may be visited in.
insertionOrder(ns, matches, selectors) ==
    appendToSlice(<<>>, allMatchedNames(ns, matches, selectors))

labelsFromSelectors(ns, matches, selectors) ==
    labelsFromSelectorsIn(ns, matches, selectors, insertionOrder(ns, matches, selectors))

(***************************************************************************)
(* The AST                                                                 *)
(***************************************************************************)

\* The operands of node i: the last one is the node before it, the one
\* before that ends where the last one starts.
LastArg(ns, i) == i - 1

FirstArg(ns, i) == i - 1 - ns[i - 1].size

IsVectorOrMatrix(vt) == vt = "vector" \/ vt = "matrix"

\* A fresh array on the heap; its reference is the new length of the heap.
Alloc(heap, arr) == Append(heap, arr)

Numbers(heap, ref) == IF ref = 0 THEN <<>> ELSE heap[ref]

(***************************************************************************)
(* calculateStaticReturn                                                   *)
(***************************************************************************)

\* A float64 is a pair <<n, d>>: the fraction n/d in lowest terms with
\* d > 0, or <<1, 0>> for +Inf, <<-1, 0>> for -Inf and <<0, 0>> for NaN.
\* Rounding and the sign of zero are not modelled.
Sign(n) == IF n > 0 THEN 1 ELSE IF n < 0 THEN 0 - 1 ELSE 0

Abs(n) == IF n < 0 THEN 0 - n ELSE n

RECURSIVE GCD(_, _)
GCD(a, b) == IF b = 0 THEN a ELSE GCD(b, a % b)

Float(n, d) ==
    IF d = 0 THEN <<Sign(n), 0>>
    ELSE LET g == GCD(Abs(n), Abs(d))
         IN <<(Sign(d) * n) \div g, Abs(d) \div g>>

NaN == <<0, 0>>

IsNaN(x) == x = NaN

IsInf(x) == x[2] = 0 /\ x[1] # 0

\* lv == rv and lv < rv of Go: false when an operand is NaN.
FloatEq(x, y) == ~IsNaN(x) /\ ~IsNaN(y) /\ x = y

FloatLess(x, y) ==
    /\ ~IsNaN(x) /\ ~IsNaN(y)
    /\ IF IsInf(x) /\ IsInf(y) THEN x[1] < y[1] ELSE x[1] * y[2] < y[1] * x[2]

\* lv + rv
FloatAdd(x, y) ==
    IF IsInf(x) /\ IsInf(y) THEN (IF x = y THEN x ELSE NaN)
    ELSE Float(x[1] * y[2] + y[1] * x[2], x[2] * y[2])

\* lv * rv
FloatMul(x, y) == Float(x[1] * y[1], x[2] * y[2])

\* lv - rv
FloatSub(x, y) == FloatAdd(x, <<0 - y[1], y[2]>>)

\* lv / rv: x/0 is +Inf, -Inf or NaN by the sign of x.
FloatDiv(x, y) == FloatMul(x, Float(y[2], y[1]))

\* math.Mod(lv, rv): the remainder has the sign of lv; NaN when lv is
\* infinite or rv is zero; lv when rv is infinite.
FloatMod(x, y) ==
    IF IsNaN(x) \/ IsNaN(y) \/ IsInf(x) \/ y[1] = 0 THEN NaN
    ELSE IF IsInf(y) THEN x
    ELSE Float(Sign(x[1]) * ((Abs(x[1]) * y[2]) % (Abs(y[1]) * x[2])), x[2] * y[2])

\* n/d to the power of k, k a natural number.
RECURSIVE IntPow(_, _)
IntPow(x, k) == IF k = 0 THEN <<1, 1>> ELSE FloatMul(x, IntPow(x, k - 1))

\* math.Pow(lv, rv) for rv an integer, an infinity or NaN (a fractional
\* exponent has no fraction as its result).
FloatPow(x, y) ==
    CASE y = <<0, 1>> \/ x = <<1, 1>> -> <<1, 1>>
      [] IsNaN(x) \/ IsNaN(y) -> NaN
      [] IsInf(y) ->
            IF Abs(x[1]) = x[2] THEN <<1, 1>>
            ELSE IF (Abs(x[1]) > x[2] \/ IsInf(x)) = (y[1] > 0) THEN <<1, 0>>
            ELSE <<0, 1>>
      [] OTHER ->
            IF y[1] > 0 THEN IntPow(x, y[1])
            ELSE FloatDiv(<<1, 1>>, IntPow(x, 0 - y[1]))

\* Any operator without a case (atan2) falls through to the final return,
\* as does a comparison that holds.
calculateStaticReturn(lv, rv, op, isDead) ==
    CASE op = "EQLC" -> IF ~FloatEq(lv, rv) THEN <<lv, TRUE>> ELSE <<lv, isDead>>
      [] op = "NEQ"  -> IF FloatEq(lv, rv) THEN <<lv, TRUE>> ELSE <<lv, isDead>>
      [] op = "LTE"  -> IF FloatLess(rv, lv) THEN <<lv, TRUE>> ELSE <<lv, isDead>>
      [] op = "LSS"  -> IF FloatLess(rv, lv) \/ FloatEq(lv, rv) THEN <<lv, TRUE>>
                        ELSE <<lv, isDead>>
      [] op = "GTE"  -> IF FloatLess(lv, rv) THEN <<lv, TRUE>> ELSE <<lv, isDead>>
      [] op = "GTR"  -> IF FloatLess(lv, rv) \/ FloatEq(lv, rv) THEN <<lv, TRUE>>
                        ELSE <<lv, isDead>>
      [] op = "ADD"  -> <<FloatAdd(lv, rv), isDead>>
      [] op = "SUB"  -> <<FloatSub(lv, rv), isDead>>
      [] op = "MUL"  -> <<FloatMul(lv, rv), isDead>>
      [] op = "DIV"  -> <<FloatDiv(lv, rv), isDead>>
      [] op = "MOD"  -> <<FloatMod(lv, rv), isDead>>
      [] op = "POW"  -> <<FloatPow(lv, rv), isDead>>
      [] OTHER       -> <<lv, isDead>>

(***************************************************************************)
(* parseAggregation: the loop that drops guaranteed labels outside by(...) *)
(***************************************************************************)

\* for _, name := range s.GuaranteedLabels { if !slices.Contains(n.Grouping,
\* name) { s.GuaranteedLabels = removeFromSlice(s.GuaranteedLabels, name) } }
\*
\* The range statement reads the slice header once and then the backing
\* array B at positions 1..Len(B), while removeFromSlice deletes from the
\* same array in place: slices.Delete moves the tail one place left and
\* zeroes the freed last position (Go 1.22 and later); the current slice is
\* B[1..k].  When the
\* slice has one element removeFromSlice returns nil and leaves B alone.
RECURSIVE dropUngrouped(_, _, _, _)
dropUngrouped(B, k, i, grouping) ==
    IF i > Len(B) THEN SubSeq(B, 1, k)
    ELSE LET name == B[i]
             cur  == SubSeq(B, 1, k)
             idx  == Index(cur, name)
         IN IF ~Contains(grouping, name) /\ idx > 0
            THEN IF k = 1
                 THEN dropUngrouped(B, 0, i + 1, grouping)
                 ELSE dropUngrouped(Delete(cur, idx) \o <<"">> \o SubSeq(B, k + 1, Len(B)),
                                    k - 1, i + 1, grouping)
            ELSE dropUngrouped(B, k, i + 1, grouping)

\* withoutSource without the removal from GuaranteedLabels.
withoutSourceKeepingGuaranteed(s, n, i) ==
    [s EXCEPT
       !.ExcludedLabels = appendToSlice(@, n.Grouping),
       !.IncludedLabels = removeFromSlice(@, n.Grouping),
       !.ExcludeReason = setAllInMap(@, n.Grouping, ExcludedLabel("without", i))]

\* withoutSource without the removal from IncludedLabels.
withoutSourceKeepingIncluded(s, n, i) ==
    [s EXCEPT
       !.ExcludedLabels = appendToSlice(@, n.Grouping),
       !.GuaranteedLabels = removeFromSlice(@, n.Grouping),
       !.ExcludeReason = setAllInMap(@, n.Grouping, ExcludedLabel("without", i))]

\* parseAggregation, if n.Without: the labels of without(...) are excluded.
withoutSource(s, n, i) ==
    [s EXCEPT
       !.ExcludedLabels = appendToSlice(@, n.Grouping),
       !.IncludedLabels = removeFromSlice(@, n.Grouping),
       !.GuaranteedLabels = removeFromSlice(@, n.Grouping),
       !.ExcludeReason = setAllInMap(@, n.Grouping, ExcludedLabel("without", i))]

\* parseAggregation, len(n.Grouping) == 0: the aggregation removes all labels.
allRemovedSource(s, i) ==
    [s EXCEPT
       !.IncludedLabels = <<>>,
       !.GuaranteedLabels = <<>>,
       !.ExcludeReason = setInMap(@, "", ExcludedLabel("aggregation removes all labels", i)),
       !.FixedLabels = TRUE]

\* parseAggregation, by(...) with labels: included unless the source already
\* fixes its labels; guaranteed labels outside by(...) are dropped.
bySource(s, n, i) ==
    LET u == IF ~s.FixedLabels
             THEN [s EXCEPT
                     !.IncludedLabels = appendToSlice(@, n.Grouping),
                     !.ExcludedLabels = removeFromSlice(@, n.Grouping),
                     !.ExcludeReason = setInMap(@, "", ExcludedLabel("by", i))]
             ELSE s
    IN [u EXCEPT
          !.GuaranteedLabels = dropUngrouped(@, Len(@), 1, n.Grouping),
          !.FixedLabels = TRUE]

\* One source of the inner expression, as parseAggregation rewrites it for
\* aggregation node n (at index i).
aggregateSource(s, n, i) ==
    LET t == IF n.Without THEN withoutSource(s, n, i)
             ELSE IF Len(n.Grouping) = 0 THEN allRemovedSource(s, i)
             ELSE bySource(s, n, i)
    IN [t EXCEPT !.Type = "AggregateSource", !.Returns = "vector", !.Call = 0]

\* walkAggregation's loop bodies: the operation tag, and for count_values
\* the label that stores the counted value.
tagSource(s, operation) == [s EXCEPT !.Operation = operation]

countValuesSource(s, param) ==
    [s EXCEPT
       !.Operation = "count_values",
       !.GuaranteedLabels = appendToSlice(@, <<param>>),
       !.IncludedLabels = appendToSlice(@, <<param>>),
       !.ExcludedLabels = removeFromSlice(@, <<param>>),
       !.ExcludeReason = deleteKey(@, param)]

\* topkSource with the last assignments of parseAggregation added.
topkSourceAsAggregation(s, operation) ==
    [s EXCEPT !.Type = "AggregateSource", !.Operation = operation,
              !.Returns = "vector", !.Call = 0]

topkSource(s, operation) == [s EXCEPT !.Type = "AggregateSource", !.Operation = operation]

\* The aggregation operators walkAggregation has a case for, with the tag
\* each case sets.
StandardAggregations ==
    {"sum", "min", "max", "avg", "group", "stddev", "stdvar", "count", "quantile"}

(***************************************************************************)
(* parseBinOps: the projections of vector matching                         *)
(***************************************************************************)

\* defaultOperation that also sets the type of a vector operator's result.
defaultOperationReturningVector(s, vm) ==
    [s EXCEPT !.Operation = IF @ = "" THEN vm.Card ELSE @, !.Returns = "vector"]

defaultOperation(s, vm) == IF s.Operation = "" THEN [s EXCEPT !.Operation = vm.Card] ELSE s

\* case n.VectorMatching.Card == promParser.CardOneToOne
oneToOneSource(s, vm, i) ==
    defaultOperation(
        IF vm.On
        THEN [s EXCEPT
                !.FixedLabels = TRUE,
                !.IncludedLabels = appendToSlice(@, vm.MatchingLabels),
                !.ExcludedLabels = removeFromSlice(@, vm.MatchingLabels),
                !.ExcludeReason = setInMap(deleteKeys(@, vm.MatchingLabels), "",
                                           ExcludedLabel("on", i))]
        ELSE [s EXCEPT
                !.IncludedLabels = removeFromSlice(@, vm.MatchingLabels),
                !.GuaranteedLabels = removeFromSlice(@, vm.MatchingLabels),
                !.ExcludedLabels = appendToSlice(@, vm.MatchingLabels),
                !.ExcludeReason = setAllInMap(@, vm.MatchingLabels, ExcludedLabel("ignoring", i))],
        vm)

\* case CardOneToMany (on the sources of the RHS) and case CardManyToOne (on
\* the sources of the LHS): the same body.
groupSource(s, vm) ==
    LET a == [s EXCEPT !.IncludedLabels = appendToSlice(@, vm.Include)]
        b == IF vm.On
             THEN [a EXCEPT
                     !.IncludedLabels = appendToSlice(@, vm.MatchingLabels),
                     !.ExcludeReason = deleteKeys(@, vm.MatchingLabels)]
             ELSE a
    IN defaultOperation(
           [b EXCEPT
              !.ExcludedLabels = removeFromSlice(@, vm.Include),
              !.ExcludeReason = deleteKeys(@, vm.Include)],
           vm)

\* case CardManyToMany, a source of the LHS.
manyToManyLHS(s, vm) ==
    defaultOperation(
        IF vm.On
        THEN [s EXCEPT
                !.IncludedLabels = appendToSlice(@, vm.MatchingLabels),
                !.ExcludeReason = deleteKeys(@, vm.MatchingLabels)]
        ELSE s,
        vm)

\* A variant of manyToManyRHS that marks every source dead.
manyToManyRHSDead(s, vm, lhsCanBeEmpty) ==
    [defaultOperation(s, vm) EXCEPT !.IsDead = TRUE]

\* case CardManyToMany with LOR, a source of the RHS.
manyToManyRHS(s, vm, lhsCanBeEmpty) ==
    LET t == defaultOperation(s, vm) IN
    IF ~lhsCanBeEmpty THEN [t EXCEPT !.IsDead = TRUE] ELSE t

(***************************************************************************)
(* parseBinOps without vector matching: constant folding                   *)
(***************************************************************************)

\* for _, rv := range rs.ReturnedNumbers {
\*     ls.ReturnedNumbers[i], ls.IsDead = calculateStaticReturn(lv, rv, n.Op, ls.IsDead) }
RECURSIVE foldRight(_, _, _, _, _, _, _)
foldRight(lv, i, ls, rs, op, heap, j) ==
    IF j > Len(Numbers(heap, rs.ReturnedNumbers)) THEN [ls |-> ls, heap |-> heap]
    ELSE LET r == calculateStaticReturn(lv, Numbers(heap, rs.ReturnedNumbers)[j], op, ls.IsDead)
         IN foldRight(lv, i, [ls EXCEPT !.IsDead = r[2]], rs, op,
                      [heap EXCEPT ![ls.ReturnedNumbers][i] = r[1]], j + 1)

\* for i, lv := range ls.ReturnedNumbers { ... }: len is read once, lv at
\* the start of each iteration.
RECURSIVE foldLeft(_, _, _, _, _, _)
foldLeft(ls, rs, op, heap, i, len) ==
    IF i > len THEN [ls |-> ls, heap |-> heap]
    ELSE LET r == foldRight(heap[ls.ReturnedNumbers][i], i, ls, rs, op, heap, 1)
         IN foldLeft(r.ls, rs, op, r.heap, i + 1, len)

\* for _, ls := range lhs { for _, rs := range rhs { switch ... } }
\* ls is one variable for the whole inner loop: what an iteration writes to
\* ls.IsDead is seen by the next, and every appended copy of ls shares the
\* array ReturnedNumbers refers to.
RECURSIVE pairs(_, _, _, _, _, _, _)
pairs(lhs, rhs, op, li, ri, ls, acc) ==
    IF li > Len(lhs) THEN acc
    ELSE IF ri > Len(rhs)
    THEN pairs(lhs, rhs, op, li + 1, 1, IF li < Len(lhs) THEN lhs[li + 1] ELSE ls, acc)
    ELSE LET rs == rhs[ri] IN
         IF ls.AlwaysReturns /\ rs.AlwaysReturns
         THEN LET r == foldLeft(ls, rs, op, acc.heap, 1, Len(Numbers(acc.heap, ls.ReturnedNumbers)))
              IN pairs(lhs, rhs, op, li, ri + 1, r.ls,
                       [src |-> Append(acc.src, r.ls), heap |-> r.heap])
         ELSE IF IsVectorOrMatrix(ls.Returns)
         THEN pairs(lhs, rhs, op, li, ri + 1, ls, [acc EXCEPT !.src = Append(@, ls)])
         ELSE IF IsVectorOrMatrix(rs.Returns)
         THEN pairs(lhs, rhs, op, li, ri + 1, ls, [acc EXCEPT !.src = Append(@, rs)])
         ELSE pairs(lhs, rhs, op, li, ri + 1, ls, acc)

\* lhsCanBeEmpty: some source of the LHS has AlwaysReturns = false.
lhsCanBeEmpty(lhs) == \E k \in 1..Len(lhs) : ~lhs[k].AlwaysReturns

(***************************************************************************)
(* parseCall                                                               *)
(***************************************************************************)

\* The functions of the cases that only set Returns and GuaranteedLabels.
LabelPreservingFuncs ==
    {"abs", "sgn", "acos", "acosh", "asin", "asinh", "atan", "atanh", "cos", "cosh",
     "sin", "sinh", "tan", "tanh",
     "ceil", "floor", "round",
     "changes", "resets",
     "clamp", "clamp_max", "clamp_min",
     "avg_over_time", "count_over_time", "last_over_time", "max_over_time",
     "min_over_time", "present_over_time", "quantile_over_time", "stddev_over_time",
     "stdvar_over_time", "sum_over_time",
     "deg", "rad", "ln", "log10", "log2", "sqrt", "exp",
     "delta", "idelta", "increase", "deriv", "irate", "rate",
     "histogram_avg", "histogram_count", "histogram_sum", "histogram_stddev",
     "histogram_stdvar", "histogram_fraction", "histogram_quantile",
     "holt_winters", "predict_linear",
     "timestamp"}

CalendarFuncs ==
    {"days_in_month", "day_of_month", "day_of_week", "day_of_year", "hour", "minute",
     "month", "year"}

RECURSIVE selectorsOf(_)
selectorsOf(sources) ==
    IF sources = <<>> THEN <<>> ELSE Head(sources).Selectors \o selectorsOf(Tail(sources))

\* "no labels": the body shared by the zero-argument calendar functions, pi,
\* scalar, time and vector.
noLabels(s, reason, i) ==
    [s EXCEPT
       !.IncludedLabels = <<>>,
       !.GuaranteedLabels = <<>>,
       !.FixedLabels = TRUE,
       !.AlwaysReturns = TRUE,
       !.ExcludeReason = setInMap(@, "", ExcludedLabel(reason, i))]

withGuaranteed(ns, s) ==
    [s EXCEPT !.GuaranteedLabels =
        appendToSlice(@, labelsFromSelectors(ns, guaranteedLabelsMatches, s.Selectors))]

\* The switch on n.Func.Name, for a source s that already has Type,
\* Operation, Call and Selectors.  Returns the source and the heap.
callSource(ns, i, s, heap) ==
    LET n == ns[i]
        name == n.Func
        asVector == [s EXCEPT !.Returns = "vector"]
        asScalar == [s EXCEPT !.Returns = "scalar"]
    IN
    CASE name \in LabelPreservingFuncs ->
            [s |-> withGuaranteed(ns, asVector), heap |-> heap]
      [] name \in {"absent", "absent_over_time"} ->
            LET names == labelsFromSelectors(ns, <<"MatchEqual">>, s.Selectors) IN
            [s |-> [asVector EXCEPT
                      !.FixedLabels = TRUE,
                      !.IncludedLabels = appendToSlice(@, names),
                      !.GuaranteedLabels = appendToSlice(@, names),
                      !.ExcludeReason = setInMap(@, "", ExcludedLabel("absent", i))],
             heap |-> heap]
      [] name \in CalendarFuncs ->
            [s |-> IF Len(n.Args) = 0
                   THEN noLabels(asVector, "no arguments", i)
                   ELSE withGuaranteed(ns, asVector),
             heap |-> heap]
      [] name \in {"label_replace", "label_join"} ->
            [s |-> [withGuaranteed(ns, asVector) EXCEPT
                      !.GuaranteedLabels = appendToSlice(@, <<n.Dst>>)],
             heap |-> heap]
      [] name \in {"pi", "scalar", "time"} ->
            [s |-> noLabels(asScalar, "scalar value", i), heap |-> heap]
      [] name \in {"sort", "sort_desc"} ->
            [s |-> asVector, heap |-> heap]
      [] name = "vector" ->
            LET isNumber == ns[n.Args[1]].kind = "NumberLiteral"
                h == IF isNumber THEN Alloc(heap, <<ns[n.Args[1]].Val>>) ELSE heap
            IN [s |-> [noLabels(asVector, "vector value", i) EXCEPT
                         !.ReturnedNumbers = IF isNumber THEN Len(h) ELSE 0],
                heap |-> h]
      [] OTHER ->
            [s |-> [s EXCEPT !.Returns = "none", !.Call = 0], heap |-> heap]

(***************************************************************************)
(* The walk                                                                *)
(***************************************************************************)

\* case *promParser.NumberLiteral; ref is the array holding n.Val.
numberSource(ref, i) ==
    [ZeroSource EXCEPT
       !.Type = "NumberSource", !.Returns = "scalar", !.ReturnedNumbers = ref,
       !.FixedLabels = TRUE, !.AlwaysReturns = TRUE,
       !.ExcludeReason = setInMap(@, "", ExcludedLabel("number value", i))]

\* case *promParser.StringLiteral
stringSource(i) ==
    [ZeroSource EXCEPT
       !.Type = "StringSource", !.Returns = "string",
       !.FixedLabels = TRUE, !.AlwaysReturns = TRUE,
       !.ExcludeReason = setInMap(@, "", ExcludedLabel("string value", i))]

\* case *promParser.VectorSelector
selectorSource(ns, i) ==
    [ZeroSource EXCEPT
       !.Type = "SelectorSource", !.Returns = "vector", !.Selectors = <<i>>,
       !.GuaranteedLabels = appendToSlice(@,
           labelsFromSelectors(ns, guaranteedLabelsMatches, <<i>>))]

RECURSIVE walkNode(_, _, _)
RECURSIVE walkAggregation(_, _, _)
RECURSIVE parseAggregation(_, _, _)
RECURSIVE parseCall(_, _, _)
RECURSIVE parseBinOps(_, _, _)

\* Every operator of the walk returns [src |-> the sources, heap |-> the heap].

\* The type n.Func.ArgTypes gives argument k; the last type repeats.
argType(n, k) == n.ArgTypes[IF k > Len(n.ArgTypes) THEN Len(n.ArgTypes) ELSE k]

\* The first loop of parseCall: the selectors of the vector and matrix
\* arguments, in order.
RECURSIVE callSelectors(_, _, _, _)
callSelectors(ns, i, k, heap) ==
    LET n == ns[i] IN
    IF k > Len(n.Args) THEN [sel |-> <<>>, heap |-> heap]
    ELSE IF IsVectorOrMatrix(argType(n, k))
    THEN LET w == walkNode(ns, n.Args[k], heap)
             rest == callSelectors(ns, i, k + 1, w.heap)
         IN [sel |-> selectorsOf(w.src) \o rest.sel, heap |-> rest.heap]
    ELSE callSelectors(ns, i, k + 1, heap)

parseCall(ns, i, heap) ==
    LET n == ns[i]
        a == callSelectors(ns, i, 1, heap)
        s == [ZeroSource EXCEPT
                !.Type = "FuncSource", !.Operation = n.Func, !.Call = i,
                !.Selectors = a.sel]
        r == callSource(ns, i, s, a.heap)
    IN [src |-> <<r.s>>, heap |-> r.heap]

parseAggregation(ns, i, heap) ==
    LET w == walkNode(ns, LastArg(ns, i), heap) IN
    [src |-> MapSeq(LAMBDA s : aggregateSource(s, ns[i], i), w.src), heap |-> w.heap]

walkAggregation(ns, i, heap) ==
    LET n == ns[i] IN
    CASE n.Op \in StandardAggregations ->
            LET p == parseAggregation(ns, i, heap) IN
            [p EXCEPT !.src = MapSeq(LAMBDA s : tagSource(s, n.Op), @)]
      [] n.Op = "count_values" ->
            LET p == parseAggregation(ns, i, heap) IN
            [p EXCEPT !.src = MapSeq(LAMBDA s : countValuesSource(s, n.Param), @)]
      [] n.Op \in {"topk", "bottomk"} ->
            LET w == walkNode(ns, LastArg(ns, i), heap) IN
            [w EXCEPT !.src = MapSeq(LAMBDA s : topkSource(s, n.Op), @)]
      [] OTHER -> [src |-> <<>>, heap |-> heap]

parseBinOps(ns, i, heap) ==
    LET n == ns[i]
        vm == n.VectorMatching
    IN
    IF ~n.HasVectorMatching
    THEN LET lhs == walkNode(ns, FirstArg(ns, i), heap)
             rhs == walkNode(ns, LastArg(ns, i), lhs.heap)
         IN pairs(lhs.src, rhs.src, n.Op, 1, 1,
                  IF lhs.src = <<>> THEN ZeroSource ELSE lhs.src[1],
                  [src |-> <<>>, heap |-> rhs.heap])
    ELSE CASE vm.Card = "one-to-one" ->
                LET lhs == walkNode(ns, FirstArg(ns, i), heap) IN
                [lhs EXCEPT !.src = MapSeq(LAMBDA s : oneToOneSource(s, vm, i), @)]
           [] vm.Card = "one-to-many" ->
                LET rhs == walkNode(ns, LastArg(ns, i), heap) IN
                [rhs EXCEPT !.src = MapSeq(LAMBDA s : groupSource(s, vm), @)]
           [] vm.Card = "many-to-one" ->
                LET lhs == walkNode(ns, FirstArg(ns, i), heap) IN
                [lhs EXCEPT !.src = MapSeq(LAMBDA s : groupSource(s, vm), @)]
           [] vm.Card = "many-to-many" ->
                LET lhs == walkNode(ns, FirstArg(ns, i), heap)
                    out == MapSeq(LAMBDA s : manyToManyLHS(s, vm), lhs.src)
                IN IF n.Op = "LOR"
                   THEN LET rhs == walkNode(ns, LastArg(ns, i), lhs.heap) IN
                        [src |-> out \o MapSeq(LAMBDA s : manyToManyRHS(s, vm, lhsCanBeEmpty(lhs.src)),
                                                rhs.src),
                         heap |-> rhs.heap]
                   ELSE [src |-> out, heap |-> lhs.heap]
           [] OTHER -> [src |-> <<>>, heap |-> heap]

walkNode(ns, i, heap) ==
    LET n == ns[i] IN
    CASE n.kind = "AggregateExpr" -> walkAggregation(ns, i, heap)
      [] n.kind = "BinaryExpr" -> parseBinOps(ns, i, heap)
      [] n.kind = "Call" -> parseCall(ns, i, heap)
      [] n.kind \in {"MatrixSelector", "SubqueryExpr", "ParenExpr", "UnaryExpr"} ->
            walkNode(ns, LastArg(ns, i), heap)
      [] n.kind = "NumberLiteral" ->
            LET h == Alloc(heap, <<n.Val>>) IN
            [src |-> <<numberSource(Len(h), i)>>, heap |-> h]
      [] n.kind = "StringLiteral" ->
            [src |-> <<stringSource(i)>>, heap |-> heap]
      [] n.kind = "VectorSelector" ->
            [src |-> <<selectorSource(ns, i)>>, heap |-> heap]
      [] OTHER -> [src |-> <<>>, heap |-> heap]

\* LabelsSource(expr, node) for the node at index i: the sources of the
\* walk, each with the numbers its ReturnedNumbers array holds at the end.
LabelsSource(ns, i) ==
    LET w == walkNode(ns, i, <<>>) IN
    MapSeq(LAMBDA s : [s EXCEPT !.ReturnedNumbers = Numbers(w.heap, @)], w.src)

(***************************************************************************)
(* The expressions handed to LabelsSource                                  *)
(*                                                                         *)
(* nodes is a forest in post-order: the expression under construction and  *)
(* the operands still waiting for their binary operator.  Every action     *)
(* appends one node, as the PromQL parser would build it, and src is       *)
(* LabelsSource of the expression the new node is the root of.             *)
(***************************************************************************)

NumberValues == {Float(1, 1), Float(2, 1)}

Matcher(name, type) == [Name |-> name, Type |-> type]

\* foo, foo{a="x"}, foo{a="x", b=~"y"}, foo{a="x", a="y"}, foo{a!="x", b!~"y"}
SelectorMatchers ==
    {<<Matcher(MetricName, "MatchEqual")>>,
     <<Matcher(MetricName, "MatchEqual"), Matcher("a", "MatchEqual")>>,
     <<Matcher(MetricName, "MatchEqual"), Matcher("a", "MatchEqual"), Matcher("b", "MatchRegexp")>>,
     <<Matcher(MetricName, "MatchEqual"), Matcher("a", "MatchEqual"), Matcher("a", "MatchEqual")>>,
     <<Matcher(MetricName, "MatchEqual"), Matcher("a", "MatchNotEqual"), Matcher("b", "MatchNotRegexp")>>}

\* Functions of the PromQL parser: the types of the arguments
\* (n.Func.ArgTypes), the type of the result, and how many arguments are
\* nodes of the model.  sort_by_label stands for the functions parseCall
\* has no case for.
Function(name, argTypes, returnType, nodeArgs) ==
    [Name |-> name, ArgTypes |-> argTypes, ReturnType |-> returnType, NodeArgs |-> nodeArgs]

Functions ==
    {Function("abs", <<"vector">>, "vector", {1}),
     Function("rate", <<"matrix">>, "vector", {1}),
     Function("absent", <<"vector">>, "vector", {1}),
     Function("absent_over_time", <<"matrix">>, "vector", {1}),
     Function("hour", <<"vector">>, "vector", {0, 1}),
     Function("label_replace", <<"vector", "string", "string", "string", "string">>, "vector", {1}),
     Function("pi", <<>>, "scalar", {0}),
     Function("scalar", <<"vector">>, "scalar", {1}),
     Function("sort", <<"vector">>, "vector", {1}),
     Function("vector", <<"scalar">>, "vector", {1}),
     Function("sort_by_label", <<"vector", "string">>, "vector", {1})}

\* The destination label of label_replace (its second argument).
DstLabels == {"c"}

Aggregation(op, grouping, without, param) ==
    [Op |-> op, Grouping |-> grouping, Without |-> without, Param |-> param]

\* limitk stands for the aggregation operators walkAggregation has no case
\* for.  The parameter of count_values is any string literal.
Aggregations ==
    {Aggregation("sum", g, w, "") : g \in {<<>>, <<"a">>, <<"c">>, <<"a", "b">>}, w \in BOOLEAN}
    \cup {Aggregation("count_values", g, w, p) :
            g \in {<<>>, <<"c">>}, w \in BOOLEAN, p \in {"c", ""}}
    \cup {Aggregation(op, <<>>, FALSE, "") : op \in {"topk", "bottomk", "limitk"}}

ArithmeticOps == {"ADD", "SUB", "MUL"}

ComparisonOps == {"EQLC", "NEQ", "LTE", "LSS", "GTE", "GTR"}

SetOps == {"LAND", "LOR", "LUNLESS"}

VectorMatching(card, on, labels, include) ==
    [Card |-> card, On |-> on, MatchingLabels |-> labels, Include |-> include]

NoVectorMatching == VectorMatching("", FALSE, <<>>, <<>>)

MatchingLabels == {<<>>, <<"a">>}

IncludeLabels == {<<>>, <<"b">>}

\* The number of trees of the forest whose last node is i.
RECURSIVE Trees(_, _)
Trees(ns, i) == IF i = 0 THEN 0 ELSE 1 + Trees(ns, i - ns[i].size)

Top == nodes[Len(nodes)]

Second == nodes[Len(nodes) - Top.size]

\* A node may be added when the forest can still be joined into one
\* expression of at most max nodes.
CanPushIn(max) == Len(nodes) + 1 + Trees(nodes, Len(nodes)) <= max

CanWrapIn(max) == nodes # <<>> /\ Len(nodes) + Trees(nodes, Len(nodes)) <= max

CanPush == CanPushIn(MaxNodes)

CanWrap == CanWrapIn(MaxNodes)

CanJoin == Trees(nodes, Len(nodes)) >= 2

\* Before readRules is called: no file was read and nothing was returned.
NoFile == [readErr |-> "", TotalLines |-> 0, Ignored |-> FALSE, fileComments |-> <<>>,
           parseErr |-> "", rules |-> <<>>, now |-> 0]

NotReturned == [called |-> FALSE, entries |-> <<>>, err |-> ""]

\* A rule as the checks see it: its kind (alerting or recording) and whether
\* its expression failed to parse, in which case it has no AST.
Rule(alerting, syntaxError) == [AlertingRule |-> alerting, SyntaxError |-> syntaxError]

\* The problems a check returned, with the name of the check; Reporter is
\* "" while no check has run.
Problems(reporter, list) == [Reporter |-> reporter, List |-> list]

\* The expression grows node by node until a check runs on the rule.
Push(n) ==
    /\ ~rule.SyntaxError
    /\ problems.Reporter = ""
    /\ nodes' = Append(nodes, n)
    /\ src' = LabelsSource(nodes', Len(nodes'))
    /\ UNCHANGED <<rule, problems, file, returned>>

Init ==
    /\ nodes = <<>>
    /\ src = <<>>
    /\ rule = Rule(FALSE, FALSE)
    /\ problems = Problems("", <<>>)
    /\ file = NoFile
    /\ returned = NotReturned

NumberLiteralIn(max) ==
    /\ CanPushIn(max)
    /\ \E v \in NumberValues :
          Push([kind |-> "NumberLiteral", size |-> 1, vt |-> "scalar", Val |-> v])

NumberLiteral == NumberLiteralIn(MaxNodes)

StringLiteral ==
    /\ CanPush
    /\ Push([kind |-> "StringLiteral", size |-> 1, vt |-> "string"])

VectorSelectorIn(max, matchers) ==
    /\ CanPushIn(max)
    /\ \E lms \in matchers :
          Push([kind |-> "VectorSelector", size |-> 1, vt |-> "vector", LabelMatchers |-> lms])

VectorSelector == VectorSelectorIn(MaxNodes, SelectorMatchers)

MatrixSelectorIn(max) ==
    /\ CanWrapIn(max)
    /\ Top.kind = "VectorSelector"
    /\ Push([kind |-> "MatrixSelector", size |-> Top.size + 1, vt |-> "matrix"])

MatrixSelector == MatrixSelectorIn(MaxNodes)

SubqueryExpr ==
    /\ CanWrap
    /\ Top.vt = "vector"
    /\ Push([kind |-> "SubqueryExpr", size |-> Top.size + 1, vt |-> "matrix"])

ParenExprIn(max) ==
    /\ CanWrapIn(max)
    /\ Push([kind |-> "ParenExpr", size |-> Top.size + 1, vt |-> Top.vt])

ParenExpr == ParenExprIn(MaxNodes)

\* The parser folds a sign before a number literal into the literal, so a
\* UnaryExpr never has a NumberLiteral as its operand.
UnaryExpr ==
    /\ CanWrap
    /\ Top.vt \in {"scalar", "vector"}
    /\ Top.kind # "NumberLiteral"
    /\ \E op \in {"ADD", "SUB"} :
          Push([kind |-> "UnaryExpr", size |-> Top.size + 1, vt |-> Top.vt, Op |-> op])

CallNode(f, args, size, dst) ==
    [kind |-> "Call", size |-> size, vt |-> f.ReturnType, Func |-> f.Name,
     ArgTypes |-> f.ArgTypes, Args |-> args, Dst |-> dst]

CallIn(max, functions) ==
    \E f \in functions :
       \E dst \in IF f.Name = "label_replace" THEN DstLabels ELSE {""} :
          \/ /\ 0 \in f.NodeArgs
             /\ CanPushIn(max)
             /\ Push(CallNode(f, <<>>, 1, dst))
          \/ /\ 1 \in f.NodeArgs
             /\ CanWrapIn(max)
             /\ Top.vt = f.ArgTypes[1]
             /\ Push(CallNode(f, <<Len(nodes)>>, Top.size + 1, dst))

Call == CallIn(MaxNodes, Functions)

AggregateExprIn(max, aggregations) ==
    /\ CanWrapIn(max)
    /\ Top.vt = "vector"
    /\ \E a \in aggregations :
          Push([kind |-> "AggregateExpr", size |-> Top.size + 1, vt |-> "vector",
                Op |-> a.Op, Grouping |-> a.Grouping, Without |-> a.Without,
                Param |-> a.Param])

AggregateExpr == AggregateExprIn(MaxNodes, Aggregations)

BinaryNode(op, bool, vt, has, vm) ==
    [kind |-> "BinaryExpr", size |-> Top.size + Second.size + 1, vt |-> vt, Op |-> op,
     ReturnBool |-> bool, HasVectorMatching |-> has, VectorMatching |-> vm]

\* The parser's checks: the operands are scalars or instant vectors; a
\* comparison of two scalars needs bool; set operators take two vectors;
\* VectorMatching is nil unless both operands are vectors; grouping
\* modifiers are not allowed with set operators.
BinaryExpr ==
    /\ CanJoin
    /\ {Top.vt, Second.vt} \subseteq {"scalar", "vector"}
    /\ \/ /\ Top.vt = "scalar" /\ Second.vt = "scalar"
          /\ \E op \in ArithmeticOps \cup ComparisonOps :
                Push(BinaryNode(op, op \in ComparisonOps, "scalar", FALSE, NoVectorMatching))
       \/ /\ Top.vt # Second.vt
          /\ \E op \in ArithmeticOps \cup ComparisonOps :
                \E bool \in IF op \in ComparisonOps THEN BOOLEAN ELSE {FALSE} :
                   Push(BinaryNode(op, bool, "vector", FALSE, NoVectorMatching))
       \/ /\ Top.vt = "vector" /\ Second.vt = "vector"
          /\ \E op \in {"ADD"}, on \in BOOLEAN, ls \in MatchingLabels :
                \/ Push(BinaryNode(op, FALSE, "vector", TRUE,
                                   VectorMatching("one-to-one", on, ls, <<>>)))
                \/ \E card \in {"many-to-one", "one-to-many"}, inc \in IncludeLabels :
                      Push(BinaryNode(op, FALSE, "vector", TRUE,
                                      VectorMatching(card, on, ls, inc)))
       \/ /\ Top.vt = "vector" /\ Second.vt = "vector"
          /\ \E op \in SetOps, on \in BOOLEAN, ls \in MatchingLabels :
                Push(BinaryNode(op, FALSE, "vector", TRUE,
                                VectorMatching("many-to-many", on, ls, <<>>)))

Next ==
    \/ NumberLiteral
    \/ StringLiteral
    \/ VectorSelector
    \/ MatrixSelector
    \/ SubqueryExpr
    \/ ParenExpr
    \/ UnaryExpr
    \/ Call
    \/ AggregateExpr
    \/ BinaryExpr

Spec == Init /\ [][Next]_vars

\* Expressions of binary operators over numbers, vector(n), hour() and one
\* selector: deeper trees of the operators that pass a source on unchanged
\* in kind.
MaxBinaryNodes == 5

BinaryFunctions == {f \in Functions : f.Name \in {"hour", "vector"}}

BinarySelectors == {<<Matcher(MetricName, "MatchEqual"), Matcher("a", "MatchEqual")>>}

NumberOperand == NumberLiteralIn(MaxBinaryNodes)

VectorOperand == VectorSelectorIn(MaxBinaryNodes, BinarySelectors)

CallOperand == CallIn(MaxBinaryNodes, BinaryFunctions)

NextBinary ==
    \/ NumberOperand
    \/ VectorOperand
    \/ CallOperand
    \/ BinaryExpr

SpecBinary == Init /\ [][NextBinary]_vars

\* Expressions over selectors with every list of at most two matchers on the
\* labels a and b, joined by or and wrapped in calls: the inputs of
\* labelsFromSelectors.
MaxSelectorNodes == 4

SelectorLabelMatchers ==
    {Matcher(name, type) : name \in {"a", "b"},
                           type \in {"MatchEqual", "MatchRegexp", "MatchNotEqual"}}

MatcherLists ==
    {<<Matcher(MetricName, "MatchEqual")>>}
    \cup {<<Matcher(MetricName, "MatchEqual"), x>> : x \in SelectorLabelMatchers}
    \cup {<<Matcher(MetricName, "MatchEqual"), x, y>> :
             x \in SelectorLabelMatchers, y \in SelectorLabelMatchers}

SelectorFunctions == {f \in Functions : f.Name \in {"abs", "absent", "hour"}}

SelectorOperand == VectorSelectorIn(MaxSelectorNodes, MatcherLists)

SelectorCall == CallIn(MaxSelectorNodes, SelectorFunctions)

\* lhs or rhs, both vectors: the sources of both sides are emitted.
SelectorUnion ==
    /\ CanJoin
    /\ Top.vt = "vector" /\ Second.vt = "vector"
    /\ Push(BinaryNode("LOR", FALSE, "vector", TRUE,
                       VectorMatching("many-to-many", FALSE, <<>>, <<>>)))

NextSelectors ==
    \/ SelectorOperand
    \/ SelectorCall
    \/ SelectorUnion

SpecSelectors == Init /\ [][NextSelectors]_vars

\* Constant folding: numbers and vector(n), joined by or and by binary
\* operators without vector matching.
MaxFoldNodes == 7

FoldOps == {"ADD", "MUL", "GTR", "EQLC"}

FoldNumber == NumberLiteralIn(MaxFoldNodes)

\* vector(s) for a scalar expression s.
VectorIn(max) ==
    /\ CanWrapIn(max)
    /\ Top.vt = "scalar"
    /\ \E f \in {g \in Functions : g.Name = "vector"} :
          Push(CallNode(f, <<Len(nodes)>>, Top.size + 1, ""))

FoldVector == VectorIn(MaxFoldNodes)

\* A binary operator with a scalar on at least one side: n.VectorMatching is
\* nil.
FoldBinary ==
    /\ CanJoin
    /\ {Top.vt, Second.vt} \subseteq {"scalar", "vector"}
    /\ "scalar" \in {Top.vt, Second.vt}
    /\ \E op \in FoldOps :
          \E bool \in IF op \in ComparisonOps
                      THEN (IF Top.vt = Second.vt THEN {TRUE} ELSE BOOLEAN)
                      ELSE {FALSE} :
             Push(BinaryNode(op, bool, IF Top.vt = Second.vt THEN "scalar" ELSE "vector",
                             FALSE, NoVectorMatching))

NextFold ==
    \/ FoldNumber
    \/ FoldVector
    \/ SelectorUnion
    \/ FoldBinary

SpecFold == Init /\ [][NextFold]_vars

\* Expressions of constants: NaN, Inf, 0, 1, 2, -1, 0.5 under every
\* binary operator calculateStaticReturn has a case for, and atan2.
MaxStaticNodes == 5

StaticValues ==
    {NaN, Float(1, 0), Float(0, 1), Float(1, 1), Float(2, 1), Float(0 - 1, 1), Float(1, 2)}

StaticOps == {"ADD", "SUB", "MUL", "DIV", "MOD", "POW", "ATAN2"} \cup ComparisonOps

StaticNumber ==
    /\ CanPushIn(MaxStaticNodes)
    /\ \E v \in StaticValues :
          Push([kind |-> "NumberLiteral", size |-> 1, vt |-> "scalar", Val |-> v])

\* A binary operator between two scalars: a comparison needs bool.  src
\* holds the sources of the right operand, the last tree of the forest.
StaticBinary ==
    /\ CanJoin
    /\ \E op \in StaticOps :
          /\ op = "POW" => src[1].ReturnedNumbers[1][2] \in {0, 1}
          /\ Push(BinaryNode(op, op \in ComparisonOps, "scalar", FALSE, NoVectorMatching))

NextStatic ==
    \/ StaticNumber
    \/ StaticBinary

SpecStatic == Init /\ [][NextStatic]_vars

\* Binary expressions over foo, 1, 2, vector(s) and sum without(a)(v):
\* s + v, s == v, s == bool s, v + on(a) v, v + ignoring(a) v,
\* v + on(a) group_left(b) v, v + on(a) group_right(b) v, and the set
\* operators with on(a) or ignoring(a).
MaxMatchingNodes == 6

MatchingBinary ==
    /\ CanJoin
    /\ {Top.vt, Second.vt} \subseteq {"scalar", "vector"}
    /\ \/ /\ "scalar" \in {Top.vt, Second.vt}
          /\ \E op \in {"ADD", "EQLC"} :
                Push(BinaryNode(op, op = "EQLC" /\ Top.vt = Second.vt,
                                IF Top.vt = Second.vt THEN "scalar" ELSE "vector",
                                FALSE, NoVectorMatching))
       \/ /\ Top.vt = "vector" /\ Second.vt = "vector"
          /\ \E on \in BOOLEAN :
                \/ Push(BinaryNode("ADD", FALSE, "vector", TRUE,
                                   VectorMatching("one-to-one", on, <<"a">>, <<>>)))
                \/ /\ on
                   /\ \E card \in {"many-to-one", "one-to-many"} :
                         Push(BinaryNode("ADD", FALSE, "vector", TRUE,
                                         VectorMatching(card, on, <<"a">>, <<"b">>)))
                \/ \E op \in SetOps :
                      Push(BinaryNode(op, FALSE, "vector", TRUE,
                                      VectorMatching("many-to-many", on, <<"a">>, <<>>)))

NextMatching ==
    \/ NumberLiteralIn(MaxMatchingNodes)
    \/ VectorSelectorIn(MaxMatchingNodes, {<<Matcher(MetricName, "MatchEqual")>>})
    \/ VectorIn(MaxMatchingNodes)
    \/ AggregateExprIn(MaxMatchingNodes, {Aggregation("sum", <<"a">>, TRUE, "")})
    \/ MatchingBinary

SpecMatching == Init /\ [][NextMatching]_vars

(***************************************************************************)
(* ComparisonCheck (internal/checks/alerts_comparison.go)                  *)
(***************************************************************************)

ComparisonCheckName == "alerts/comparison"

\* promParser.Children: the sub-expressions of node i, in source order.  The
\* parameter of an aggregation and the string arguments of a call are
\* literals that the model does not keep as nodes.
Children(ns, i) ==
    LET n == ns[i] IN
    CASE n.kind = "BinaryExpr" -> <<FirstArg(ns, i), LastArg(ns, i)>>
      [] n.kind = "Call" -> n.Args
      [] n.kind \in {"AggregateExpr", "MatrixSelector", "SubqueryExpr", "ParenExpr",
                     "UnaryExpr"} -> <<i - 1>>
      [] OTHER -> <<>>

\* The first node of the subtree i, in pre-order, that is a binary expression
\* with a comparison operator or unless; 0 for nil.
RECURSIVE hasComparision(_, _)
RECURSIVE firstComparision(_, _)
hasComparision(ns, i) ==
    IF ns[i].kind = "BinaryExpr" /\ (ns[i].Op \in ComparisonOps \/ ns[i].Op = "LUNLESS")
    THEN i
    ELSE firstComparision(ns, Children(ns, i))

\* for _, child := range promParser.Children(n)
firstComparision(ns, children) ==
    IF children = <<>> THEN 0
    ELSE LET node == hasComparision(ns, Head(children)) IN
         IF node # 0 THEN node ELSE firstComparision(ns, Tail(children))

RECURSIVE isAbsent(_, _)
isAbsent(ns, i) ==
    \/ ns[i].kind = "Call" /\ ns[i].Func = "absent"
    \/ \E k \in 1..Len(Children(ns, i)) : isAbsent(ns, Children(ns, i)[k])

\* hasAbsent walks the *parser.PromQLNode tree, whose Children mirror
\* promParser.Children.
RECURSIVE hasAbsent(_, _)
hasAbsent(ns, i) ==
    \/ isAbsent(ns, i)
    \/ \E k \in 1..Len(Children(ns, i)) : hasAbsent(ns, Children(ns, i)[k])

\* A variant of rewriteSeverity that never escalates.
rewriteSeverityKeeping(s, ns, operands) == s

rewriteSeverity(s, ns, operands) ==
    IF \E k \in 1..Len(operands) :
          ns[operands[k]].kind = "Call" /\ ns[operands[k]].Func = "vector"
    THEN "Bug"
    ELSE s

\* utils.HasOuterBinaryExpr: the binary expression at the outermost level,
\* skipping ParenExpr and UnaryExpr wrappers; 0 for nil.
RECURSIVE HasOuterBinaryExpr(_, _)
HasOuterBinaryExpr(ns, i) ==
    CASE ns[i].kind = "BinaryExpr" -> i
      [] ns[i].kind \in {"ParenExpr", "UnaryExpr"} -> HasOuterBinaryExpr(ns, i - 1)
      [] OTHER -> 0

Problem(text, severity) == [Reporter |-> ComparisonCheckName, Text |-> text, Severity |-> severity]

\* Lines 46-56: the alert uses or with a side that always returns.
orProblems(ns, expr) ==
    LET n == HasOuterBinaryExpr(ns, expr) IN
    IF /\ n # 0
       /\ ns[n].Op = "LOR"
       /\ \/ hasComparision(ns, FirstArg(ns, n)) = 0
          \/ hasComparision(ns, LastArg(ns, n)) = 0
       /\ ~isAbsent(ns, FirstArg(ns, n))
       /\ ~isAbsent(ns, LastArg(ns, n))
    THEN <<Problem("always fire", rewriteSeverity("Warning", ns,
                                                  <<FirstArg(ns, n), LastArg(ns, n)>>))>>
    ELSE <<>>

\* Lines 58-83: the bool modifier of the first comparison, or no condition.
conditionProblems(ns, expr) ==
    LET n == hasComparision(ns, expr) IN
    IF n # 0
    THEN IF /\ ns[n].ReturnBool
            /\ hasComparision(ns, FirstArg(ns, n)) = 0
            /\ hasComparision(ns, LastArg(ns, n)) = 0
         THEN <<Problem("bool modifier", "Bug")>>
         ELSE <<>>
    ELSE IF hasAbsent(ns, expr) THEN <<>>
    ELSE <<Problem("no condition", "Warning")>>

\* A variant of Check that skips the test of the rule's kind.
CheckAnyRule(r, ns) ==
    IF r.SyntaxError THEN <<>>
    ELSE orProblems(ns, Len(ns)) \o conditionProblems(ns, Len(ns))

\* ComparisonCheck.Check for rule r, whose expression (when it parsed) is
\* the tree ending at the last node of ns.
Check(r, ns) ==
    IF ~r.AlertingRule THEN <<>>
    ELSE IF r.SyntaxError THEN <<>>
    ELSE orProblems(ns, Len(ns)) \o conditionProblems(ns, Len(ns))

(***************************************************************************)
(* FragileCheck (promql/fragile), as the tests of                          *)
(* internal/checks/promql_fragile_test.go and the documented rules         *)
(* describe it.                                                            *)
(***************************************************************************)

FragileCheckName == "promql/fragile"

fragileProblem(text) == [Reporter |-> FragileCheckName, Text |-> text, Severity |-> "Warning"]

\* The node a side of a binary expression stands for: parentheses skipped.
RECURSIVE withoutParens(_, _)
withoutParens(ns, i) ==
    IF ns[i].kind = "ParenExpr" THEN withoutParens(ns, i - 1) ELSE i

\* The side is an aggregation using without(...).
isWithoutAggregation(ns, i) ==
    LET a == ns[withoutParens(ns, i)] IN a.kind = "AggregateExpr" /\ a.Without

\* The label matchers of the selectors below node i, in source order.
sourceSelectors(ns, i) ==
    LET first == i - ns[i].size + 1
        idx == SelectSeq([k \in 1..ns[i].size |-> first + k - 1],
                         LAMBDA j : ns[j].kind = "VectorSelector")
    IN [k \in 1..Len(idx) |-> ns[idx[k]].LabelMatchers]

\* Both sides aggregate the same selectors without the same set of labels.
sameSource(ns, l, r) ==
    LET a == ns[withoutParens(ns, l)]
        b == ns[withoutParens(ns, r)]
    IN /\ isWithoutAggregation(ns, l)
       /\ isWithoutAggregation(ns, r)
       /\ Range(a.Grouping) = Range(b.Grouping)
       /\ sourceSelectors(ns, l) = sourceSelectors(ns, r)

\* Rule A with the exemption of on(...) left out.
isFragileIgnoringOn(ns, i) ==
    LET n == ns[i]
        l == FirstArg(ns, i)
        r == LastArg(ns, i)
    IN /\ n.kind = "BinaryExpr"
       /\ n.Op \in ArithmeticOps
       /\ ns[l].vt = "vector" /\ ns[r].vt = "vector"
       /\ isWithoutAggregation(ns, l) \/ isWithoutAggregation(ns, r)
       /\ ~sameSource(ns, l, r)

\* Rule A at one binary expression.  An expression that matches with
\* on(...) names the labels both sides must have and is not reported
\* ("(...) without(instance) on(app_name) is ok").
isFragile(ns, i) ==
    LET n == ns[i]
        l == FirstArg(ns, i)
        r == LastArg(ns, i)
    IN /\ n.kind = "BinaryExpr"
       /\ n.Op \in ArithmeticOps
       /\ ns[l].vt = "vector" /\ ns[r].vt = "vector"
       /\ ~(n.HasVectorMatching /\ n.VectorMatching.On)
       /\ isWithoutAggregation(ns, l) \/ isWithoutAggregation(ns, r)
       /\ ~sameSource(ns, l, r)

\* Rule A over the subtree of node i, the enclosing expression first.
RECURSIVE checkAggregation(_, _)
RECURSIVE checkAggregationOfChildren(_, _)
checkAggregation(ns, i) ==
    (IF isFragile(ns, i) THEN <<fragileProblem("without")>> ELSE <<>>)
    \o checkAggregationOfChildren(ns, Children(ns, i))

checkAggregationOfChildren(ns, children) ==
    IF children = <<>> THEN <<>>
    ELSE checkAggregation(ns, Head(children))
         \o checkAggregationOfChildren(ns, Tail(children))

SamplingAggregations == {"topk", "bottomk"}

\* Rule B over the subtree of node i: one problem for each topk or bottomk
\* whose result is not aggregated, in source order.
RECURSIVE checkSampling(_, _, _)
RECURSIVE checkSamplingOfChildren(_, _, _)
\* A variant of checkSampling that forgets the enclosing aggregation.
checkSamplingOfAll(ns, i, aggregated) ==
    LET n == ns[i] IN
    (IF n.kind = "AggregateExpr" /\ n.Op \in SamplingAggregations
     THEN <<fragileProblem(n.Op)>> ELSE <<>>)
    \o checkSamplingOfChildren(ns, Children(ns, i), FALSE)

checkSampling(ns, i, aggregated) ==
    LET n == ns[i] IN
    IF n.kind = "AggregateExpr"
    THEN (IF n.Op \in SamplingAggregations /\ ~aggregated
          THEN <<fragileProblem(n.Op)>> ELSE <<>>)
         \o checkSamplingOfChildren(ns, Children(ns, i), TRUE)
    ELSE checkSamplingOfChildren(ns, Children(ns, i), aggregated)

checkSamplingOfChildren(ns, children, aggregated) ==
    IF children = <<>> THEN <<>>
    ELSE checkSampling(ns, Head(children), aggregated)
         \o checkSamplingOfChildren(ns, Tail(children), aggregated)

\* FragileCheck.Check for rule r.
fragileCheck(r, ns) ==
    IF r.SyntaxError THEN <<>>
    ELSE checkAggregation(ns, Len(ns)) \o checkSampling(ns, Len(ns), FALSE)

(***************************************************************************)
(* Rules and the checks run on them                                        *)
(***************************************************************************)

\* Any rule: alerting or recording, with or without a syntax error.
InitChecks ==
    /\ nodes = <<>>
    /\ src = <<>>
    /\ rule \in {Rule(a, s) : a \in BOOLEAN, s \in BOOLEAN}
    /\ problems = Problems("", <<>>)
    /\ file = NoFile
    /\ returned = NotReturned

\* The expression of the rule is complete: it failed to parse, or it is one
\* tree.
ExprReady == rule.SyntaxError \/ (nodes # <<>> /\ Trees(nodes, Len(nodes)) = 1)

ComparisonCheck ==
    /\ problems.Reporter = ""
    /\ ExprReady
    /\ problems' = Problems(ComparisonCheckName, Check(rule, nodes))
    /\ UNCHANGED <<nodes, src, rule, file, returned>>

FragileCheck ==
    /\ problems.Reporter = ""
    /\ ExprReady
    /\ problems' = Problems(FragileCheckName, fragileCheck(rule, nodes))
    /\ UNCHANGED <<nodes, src, rule, file, returned>>

\* Alert expressions: up, 1, up[5m], (e), absent(e), absent_over_time(m),
\* vector(s), hour(), e or e, e unless e, e > e, e > bool e, e + e.
MaxComparisonNodes == 5

ComparisonFunctions ==
    {f \in Functions : f.Name \in {"absent", "absent_over_time", "vector", "hour"}}

ComparisonBinaryOps == {"LOR", "LUNLESS", "GTR", "ADD"}

\* Binary operators without modifiers other than bool.
PlainBinary(ops) ==
    /\ CanJoin
    /\ {Top.vt, Second.vt} \subseteq {"scalar", "vector"}
    /\ \E op \in ops :
          \E bool \in IF op \in ComparisonOps
                      THEN (IF Top.vt = "scalar" /\ Second.vt = "scalar"
                            THEN {TRUE} ELSE BOOLEAN)
                      ELSE {FALSE} :
             /\ op \in SetOps => Top.vt = "vector" /\ Second.vt = "vector"
             /\ Push(BinaryNode(op, bool,
                                IF Top.vt = "scalar" /\ Second.vt = "scalar"
                                THEN "scalar" ELSE "vector",
                                Top.vt = "vector" /\ Second.vt = "vector",
                                IF Top.vt = "vector" /\ Second.vt = "vector"
                                THEN VectorMatching(IF op \in SetOps THEN "many-to-many"
                                                    ELSE "one-to-one", FALSE, <<>>, <<>>)
                                ELSE NoVectorMatching))

NextComparison ==
    \/ NumberLiteralIn(MaxComparisonNodes)
    \/ VectorSelectorIn(MaxComparisonNodes, {<<Matcher(MetricName, "MatchEqual")>>})
    \/ MatrixSelectorIn(MaxComparisonNodes)
    \/ ParenExprIn(MaxComparisonNodes)
    \/ CallIn(MaxComparisonNodes, ComparisonFunctions)
    \/ PlainBinary(ComparisonBinaryOps)
    \/ ComparisonCheck
    \/ FragileCheck

SpecComparison == InitChecks /\ [][NextComparison]_vars

\* Rule expressions: foo, foo{a="x"}, 1, (e), sum(e), sum without(a)(e),
\* sum without(b)(e), topk(1, e), bottomk(1, e), e + e, e + on(a) e, e > e,
\* e or e, e unless e.
MaxFragileNodes == 5

FragileSelectors ==
    {<<Matcher(MetricName, "MatchEqual")>>,
     <<Matcher(MetricName, "MatchEqual"), Matcher("a", "MatchEqual")>>}

FragileAggregations ==
    {Aggregation("sum", <<>>, FALSE, ""),
     Aggregation("sum", <<"a">>, TRUE, ""),
     Aggregation("sum", <<"b">>, TRUE, ""),
     Aggregation("topk", <<>>, FALSE, ""),
     Aggregation("bottomk", <<>>, FALSE, "")}

FragileBinaryOps == {"ADD", "GTR", "LOR", "LUNLESS"}

\* e + on(a) e
FragileBinaryOn ==
    /\ CanJoin
    /\ Top.vt = "vector" /\ Second.vt = "vector"
    /\ Push(BinaryNode("ADD", FALSE, "vector", TRUE,
                       VectorMatching("one-to-one", TRUE, <<"a">>, <<>>)))

NextFragile ==
    \/ NumberLiteralIn(MaxFragileNodes)
    \/ VectorSelectorIn(MaxFragileNodes, FragileSelectors)
    \/ ParenExprIn(MaxFragileNodes)
    \/ AggregateExprIn(MaxFragileNodes, FragileAggregations)
    \/ PlainBinary(FragileBinaryOps)
    \/ FragileBinaryOn
    \/ FragileCheck

SpecFragile == InitChecks /\ [][NextFragile]_vars

(***************************************************************************)
(* readRules (internal/discovery/discovery.go)                             *)
(***************************************************************************)

Min(a, b) == IF a < b THEN a ELSE b

\* parser.LineRange.Expand: every line from First to Last.
Expand(lr) == [k \in 1..(lr.Last - lr.First + 1) |-> lr.First + k - 1]

\* A variant of contentLines that starts at the line before the first.
contentLinesFromZero(f) == [First |-> 0, Last |-> f.TotalLines]

contentLines(f) == [First |-> Min(f.TotalLines, 1), Last |-> f.TotalLines]

\* The zero parser.Rule of an entry that carries an error.
NoRule == [Lines |-> [First |-> 0, Last |-> 0], Owner |-> "", Zero |-> TRUE]

Entry(pathError, owner, lines, r, disabled) ==
    [PathError |-> pathError, Owner |-> owner, ModifiedLines |-> lines, Rule |-> r,
     DisabledChecks |-> disabled]

\* A variant of After that holds at the instant itself.
NotBefore(until, now) == until >= now

\* snooze.Until.After(time.Now())
After(until, now) == until > now

\* The loop over fileComments: st holds fileOwner, disabledChecks and
\* entries.
RECURSIVE readComments(_, _, _)
readComments(f, comments, st) ==
    IF comments = <<>> THEN st
    ELSE LET comment == Head(comments)
             next ==
                CASE comment.Type = "FileOwnerType" ->
                        [st EXCEPT !.fileOwner = comment.Value]
                  [] comment.Type = "FileDisableType" ->
                        [st EXCEPT !.disabledChecks =
                            IF Contains(@, comment.Value) THEN @ ELSE Append(@, comment.Value)]
                  [] comment.Type = "FileSnoozeType" ->
                        IF ~After(comment.Until, f.now) THEN st
                        ELSE [st EXCEPT !.disabledChecks =
                                 IF Contains(@, comment.Value) THEN @
                                 ELSE Append(@, comment.Value)]
                  [] comment.Type = "InvalidComment" ->
                        [st EXCEPT !.entries =
                            Append(@, Entry(comment.Value, st.fileOwner,
                                            Expand(contentLines(f)), NoRule, <<>>))]
                  [] OTHER -> st
         IN readComments(f, Tail(comments), next)

\* The entries of the rules the parser returned.
ruleEntries(rules, fileOwner, disabledChecks) ==
    [k \in 1..Len(rules) |->
        Entry("", IF rules[k].Owner # "" THEN rules[k].Owner ELSE fileOwner,
              Expand(rules[k].Lines), rules[k], disabledChecks)]

readRules(f) ==
    IF f.readErr # "" THEN [entries |-> <<>>, err |-> f.readErr]
    ELSE LET st == readComments(f, f.fileComments,
                                [fileOwner |-> "", disabledChecks |-> <<>>, entries |-> <<>>])
         IN IF f.Ignored
            THEN [entries |-> Append(st.entries,
                                     Entry("This file was excluded from pint checks.",
                                           st.fileOwner, Expand(contentLines(f)), NoRule, <<>>)),
                  err |-> ""]
            ELSE IF f.parseErr # ""
            THEN [entries |-> Append(st.entries,
                                     Entry(f.parseErr, st.fileOwner,
                                           Expand(contentLines(f)), NoRule, <<>>)),
                  err |-> ""]
            ELSE [entries |-> st.entries
                                 \o ruleEntries(f.rules, st.fileOwner, st.disabledChecks),
                  err |-> ""]

\* Files of up to MaxLines lines with up to MaxComments file comments.
MaxLines == 3

MaxComments == 2

\* Instants are 0..MaxTime.
MaxTime == 2

Comment(type, value, until) == [Type |-> type, Value |-> value, Until |-> until]

Comments ==
    {Comment("FileOwnerType", o, 0) : o \in {"alice", "bob"}}
    \cup {Comment("FileDisableType", c, 0) : c \in {"promql/fragile", "alerts/comparison"}}
    \cup {Comment("FileSnoozeType", "alerts/comparison", u) : u \in 0..MaxTime}
    \cup {Comment("InvalidComment", "invalid comment", 0)}

\* The comment lists of a file of n lines: one comment a line at most.
CommentLists(n) == UNION {[1..k -> Comments] : k \in 0..Min(n, MaxComments)}

\* A rule of the file: its lines and the owner its own comment names.
ParsedRule(first, last, owner) ==
    [Lines |-> [First |-> first, Last |-> last], Owner |-> owner, Zero |-> FALSE]

\* What the parser returns for a body of n lines: no rule, one rule, or two
\* rules on distinct lines.
RuleLists(n) ==
    {<<>>}
    \cup {<<ParsedRule(1, l, o)>> : l \in 1..n, o \in {"", "bob"}}
    \cup {<<ParsedRule(1, 1, ""), ParsedRule(2, l, o)>> : l \in 2..n, o \in {"", "bob"}}

\* What readRules can be given: a reader that fails, or content of
\* TotalLines lines read at the instant now (time.Now()).  Comments, an
\* ignore marker and a parse error need a line to be on.
File(n, i, cs, e, rs, now) ==
    [readErr |-> "", TotalLines |-> n, Ignored |-> i, fileComments |-> cs,
     parseErr |-> e, rules |-> rs, now |-> now]

InitDiscovery ==
    /\ nodes = <<>>
    /\ src = <<>>
    /\ rule = Rule(FALSE, FALSE)
    /\ problems = Problems("", <<>>)
    /\ \/ file = [NoFile EXCEPT !.readErr = "read error"]
       \/ \E n \in 0..MaxLines, i \in BOOLEAN, e \in {"", "parse error"},
             now \in 0..MaxTime :
             /\ i \/ e # "" => n >= 1
             /\ \E cs \in CommentLists(n),
                   rs \in RuleLists(n) :
                   file = File(n, i, cs, e, rs, now)
    /\ returned = NotReturned

ReadRules ==
    /\ ~returned.called
    /\ returned' = [called |-> TRUE, entries |-> readRules(file).entries,
                    err |-> readRules(file).err]
    /\ UNCHANGED <<nodes, src, rule, problems, file>>

NextDiscovery == ReadRules

SpecDiscovery == InitDiscovery /\ [][NextDiscovery]_vars

\* ---------------------------------------------------------------------------
\* Properties of the sources LabelsSource emits.

Root == nodes[Len(nodes)]

\* The sources of the root's operand, when the root wraps one expression.
Inner == LabelsSource(nodes, Len(nodes) - 1)

Sources == {src[k] : k \in 1..Len(src)}

\* C1: in every source that LabelsSource emits, no label is both in
\* GuaranteedLabels and in ExcludedLabels.
C1_GuaranteedNotExcluded ==
    \A s \in Sources : Range(s.GuaranteedLabels) \cap Range(s.ExcludedLabels) = {}

\* without(...) names a label the inner source guaranteed, and the emitted
\* source still guarantees another label.
C1_Witness ==
    /\ nodes # <<>>
    /\ Root.kind = "AggregateExpr" /\ Root.Without
    /\ \E k \in 1..Len(src) :
          /\ Range(Root.Grouping) \cap Range(Inner[k].GuaranteedLabels) # {}
          /\ src[k].GuaranteedLabels # <<>>
          /\ Range(Root.Grouping) \subseteq Range(src[k].ExcludedLabels)

\* C2: a label that a nested aggregation removed (listed in without, not
\* listed in by, or dropped by an aggregation without grouping) is not in
\* GuaranteedLabels of the sources of a label-preserving call around that
\* aggregation, and a call reports a label as guaranteed only if every one of
\* its selectors has an equality or regexp matcher for it.
C2_NoRemovedLabelGuaranteed ==
    (/\ nodes # <<>>
     /\ Root.kind = "Call"
     /\ Root.Func \in LabelPreservingFuncs)
    => \A s \in Sources :
          /\ nodes[Len(nodes) - 1].kind = "AggregateExpr"
             => LET a == nodes[Len(nodes) - 1] IN
                IF a.Without
                THEN Range(s.GuaranteedLabels) \cap Range(a.Grouping) = {}
                ELSE Range(s.GuaranteedLabels) \subseteq
                        Range(a.Grouping) \cup
                        (IF a.Op = "count_values" THEN {a.Param} ELSE {})
          /\ \A l \in Range(s.GuaranteedLabels) :
                \A k \in 1..Len(s.Selectors) :
                   \E m \in Range(nodes[s.Selectors[k]].LabelMatchers) :
                      m.Name = l /\ Contains(guaranteedLabelsMatches, m.Type)

\* C3: LabelsSource returns at least one source for every expression.
C3_AtLeastOneSource ==
    nodes # <<>> => Len(src) >= 1

\* C4: for an aggregation by(L) with L non-empty, every emitted source has
\* FixedLabels, IncludedLabels contains every label of L, and
\* GuaranteedLabels contains no label outside L.
C4_ByFixesLabels ==
    (/\ nodes # <<>>
     /\ Root.kind = "AggregateExpr"
     /\ Root.Op \in StandardAggregations
     /\ ~Root.Without
     /\ Root.Grouping # <<>>)
    => \A s \in Sources :
          /\ s.FixedLabels
          /\ Range(Root.Grouping) \subseteq Range(s.IncludedLabels)
          /\ Range(s.GuaranteedLabels) \subseteq Range(Root.Grouping)

\* C5: for a standard aggregation without(W), every emitted source has all of
\* W in ExcludedLabels, none of W in GuaranteedLabels or IncludedLabels, an
\* exclude reason for each label of W, and the FixedLabels of the inner
\* source it came from.
C5_WithoutExcludes ==
    (/\ nodes # <<>>
     /\ Root.kind = "AggregateExpr"
     /\ Root.Op \in StandardAggregations
     /\ Root.Without)
    => /\ Len(src) = Len(Inner)
       /\ \A k \in 1..Len(src) :
             /\ Range(Root.Grouping) \subseteq Range(src[k].ExcludedLabels)
             /\ Range(Root.Grouping) \cap Range(src[k].GuaranteedLabels) = {}
             /\ Range(Root.Grouping) \cap Range(src[k].IncludedLabels) = {}
             /\ \A l \in Range(Root.Grouping) :
                   \E e \in src[k].ExcludeReason :
                      /\ e.key = l
                      /\ e.Reason = "without"
                      /\ e.Fragment = Len(nodes)
             /\ src[k].FixedLabels = Inner[k].FixedLabels

\* without(W) over a source with fixed labels that included and guaranteed a
\* label of W.
C5_Witness ==
    /\ nodes # <<>>
    /\ Root.kind = "AggregateExpr"
    /\ Root.Op \in StandardAggregations
    /\ Root.Without
    /\ \E k \in 1..Len(Inner) :
          /\ Inner[k].FixedLabels
          /\ Range(Root.Grouping) \cap Range(Inner[k].IncludedLabels) # {}
          /\ Range(Root.Grouping) \cap Range(Inner[k].GuaranteedLabels) # {}

IsConstant(ns, i) ==
    \A j \in (i - ns[i].size + 1)..i :
       ns[j].kind \in {"NumberLiteral", "ParenExpr", "UnaryExpr", "BinaryExpr"}

\* The value of the constant expression rooted at i: arithmetic is computed,
\* a unary minus negates, and a comparison keeps its left value (the
\* documented folding of comparisons, which only marks dead code).
RECURSIVE Eval(_, _)
Eval(ns, i) ==
    LET n == ns[i] IN
    CASE n.kind = "NumberLiteral" -> n.Val
      [] n.kind = "ParenExpr" -> Eval(ns, i - 1)
      [] n.kind = "UnaryExpr" ->
            IF n.Op = "SUB" THEN FloatSub(Float(0, 1), Eval(ns, i - 1)) ELSE Eval(ns, i - 1)
      [] n.kind = "BinaryExpr" ->
            LET l == Eval(ns, FirstArg(ns, i))
                r == Eval(ns, LastArg(ns, i))
            IN CASE n.Op = "ADD" -> FloatAdd(l, r)
                 [] n.Op = "SUB" -> FloatSub(l, r)
                 [] n.Op = "MUL" -> FloatMul(l, r)
                 [] OTHER -> l

\* C7: an expression of number literals, parentheses, unary signs and binary
\* operators yields exactly one source, of kind Number, with AlwaysReturns
\* and FixedLabels, whose ReturnedNumbers is the value of the expression.
C7_ConstantValue ==
    (nodes # <<>> /\ IsConstant(nodes, Len(nodes)))
    => /\ Len(src) = 1
       /\ src[1].Type = "NumberSource"
       /\ src[1].AlwaysReturns
       /\ src[1].FixedLabels
       /\ src[1].ReturnedNumbers = <<Eval(nodes, Len(nodes))>>

\* C8: every source of kind Number has FixedLabels, AlwaysReturns, Returns
\* scalar and exactly one entry in ReturnedNumbers, whatever binary operators
\* and vector matching were applied to it.
C8_NumberSources ==
    \A s \in Sources :
       s.Type = "NumberSource"
       => /\ s.FixedLabels
          /\ s.AlwaysReturns
          /\ s.Returns = "scalar"
          /\ Len(s.ReturnedNumbers) = 1

\* A Number source that a binary operator with vector matching emitted, its
\* operand being itself the result of a binary operator.
C8_Witness ==
    /\ nodes # <<>>
    /\ Root.kind = "BinaryExpr"
    /\ Root.HasVectorMatching
    /\ nodes[FirstArg(nodes, Len(nodes))].kind = "BinaryExpr"
    /\ \E s \in Sources : s.Type = "NumberSource" /\ s.Operation # ""

\* C9: every source with FixedLabels has an exclude reason under the key "".
C9_FixedLabelsHaveReason ==
    \A s \in Sources : s.FixedLabels => "" \in Keys(s.ExcludeReason)

\* The label names that the selectors have an Equal matcher for.
EqualNames(selectors) ==
    {m.Name : m \in {x \in UNION {Range(nodes[selectors[k]].LabelMatchers) :
                                     k \in 1..Len(selectors)} :
                        x.Type = "MatchEqual" /\ x.Name # MetricName}}

\* C10: absent and absent_over_time emit a source with FixedLabels whose
\* IncludedLabels and GuaranteedLabels are exactly the label names, other
\* than __name__, that an Equal matcher of the argument's selectors names.
C10_AbsentLabels ==
    (/\ nodes # <<>>
     /\ Root.kind = "Call"
     /\ Root.Func \in {"absent", "absent_over_time"})
    => /\ Len(src) = 1
       /\ src[1].FixedLabels
       /\ Range(src[1].IncludedLabels) = EqualNames(src[1].Selectors)
       /\ Range(src[1].GuaranteedLabels) = EqualNames(src[1].Selectors)

\* The label names of the matchers of selector node i whose type is Equal or
\* Regexp, other than __name__.
PositiveNames(i) ==
    {m.Name : m \in {x \in Range(nodes[i].LabelMatchers) :
                        x.Name # MetricName /\ x.Type \in {"MatchEqual", "MatchRegexp"}}}

\* C11: a vector selector yields one Selector source whose GuaranteedLabels
\* is exactly the set of label names, other than __name__, of its Equal and
\* Regexp matchers, also with several matchers on one label name.
C11_SelectorGuaranteed ==
    (nodes # <<>> /\ Root.kind = "VectorSelector")
    => /\ Len(src) = 1
       /\ src[1].Type = "SelectorSource"
       /\ src[1].Selectors = <<Len(nodes)>>
       /\ Range(src[1].GuaranteedLabels) = PositiveNames(Len(nodes))

\* The orders in which the keys of nameCount may be visited.
KeyOrders(matches, selectors) ==
    LET keys == Range(allMatchedNames(nodes, matches, selectors)) IN
    {o \in [1..Cardinality(keys) -> keys] : Range(o) = keys}

\* The names the second loop of labelsFromSelectors removes.
Miscounted(matches, selectors) ==
    LET all == allMatchedNames(nodes, matches, selectors) IN
    {x \in Range(all) : nameCount(all, x) # Len(selectors)}

\* C19: LabelsSource is deterministic: the labels that the emitted source of
\* a selector or of a call takes from labelsFromSelectors are the same for
\* every order in which the map nameCount is visited.
C19_Deterministic ==
    nodes # <<>> =>
       /\ Root.kind = "VectorSelector"
          => \A o \in KeyOrders(guaranteedLabelsMatches, <<Len(nodes)>>) :
                src[1].GuaranteedLabels =
                   labelsFromSelectorsIn(nodes, guaranteedLabelsMatches, <<Len(nodes)>>, o)
       /\ (Root.kind = "Call" /\ Root.Func \in LabelPreservingFuncs)
          => \A o \in KeyOrders(guaranteedLabelsMatches, src[1].Selectors) :
                src[1].GuaranteedLabels =
                   labelsFromSelectorsIn(nodes, guaranteedLabelsMatches, src[1].Selectors, o)
       /\ (Root.kind = "Call" /\ Root.Func \in {"absent", "absent_over_time"})
          => \A o \in KeyOrders(<<"MatchEqual">>, src[1].Selectors) :
                LET names == labelsFromSelectorsIn(nodes, <<"MatchEqual">>, src[1].Selectors, o)
                IN /\ src[1].IncludedLabels = names
                   /\ src[1].GuaranteedLabels = names

\* A call over two selectors where the loop over the map has two names to
\* remove, so that the map can be visited in orders that remove them in
\* either sequence.
C19_Witness ==
    /\ nodes # <<>>
    /\ Root.kind = "Call"
    /\ Root.Func \in LabelPreservingFuncs
    /\ Len(src[1].Selectors) = 2
    /\ Cardinality(Miscounted(guaranteedLabelsMatches, src[1].Selectors)) >= 2
    /\ Cardinality(KeyOrders(guaranteedLabelsMatches, src[1].Selectors)) >= 2

\* The sources of the two operands of the binary expression at the root.
LeftSources == LabelsSource(nodes, FirstArg(nodes, Len(nodes)))

RightSources == LabelsSource(nodes, LastArg(nodes, Len(nodes)))

\* The root is a binary expression without vector matching, all of whose
\* operand sources always return one number.
FoldsAll ==
    /\ nodes # <<>>
    /\ Root.kind = "BinaryExpr"
    /\ ~Root.HasVectorMatching
    /\ \A s \in Range(LeftSources) \cup Range(RightSources) :
          s.AlwaysReturns /\ Len(s.ReturnedNumbers) = 1

\* C20: when the lhs source and the rhs sources of a binary expression
\* without vector matching all always return, the source emitted for the
\* pair (lhs, rhs_j) carries op(lhs number, rhs_j number) and the IsDead that
\* this pair alone decides, whatever the other pairs computed.
C20_PairsIndependent ==
    FoldsAll =>
       LET L == LeftSources
           R == RightSources
       IN /\ Len(src) = Len(L) * Len(R)
          /\ \A l \in 1..Len(L), r \in 1..Len(R) :
                LET s == src[(l - 1) * Len(R) + r]
                    v == calculateStaticReturn(L[l].ReturnedNumbers[1],
                                               R[r].ReturnedNumbers[1],
                                               Root.Op, L[l].IsDead)
                IN /\ s.ReturnedNumbers = <<v[1]>>
                   /\ s.IsDead = v[2]

\* ---------------------------------------------------------------------------
\* Properties of the problems the checks report.

Subtree(ns, i) == (i - ns[i].size + 1)..i

\* A comparison or unless: what makes an alert conditional.
IsCondition(n) ==
    n.kind = "BinaryExpr" /\ (n.Op \in ComparisonOps \/ n.Op = "LUNLESS")

ContainsCondition(ns, i) == \E j \in Subtree(ns, i) : IsCondition(ns[j])

ContainsCall(ns, i, names) ==
    \E j \in Subtree(ns, i) : ns[j].kind = "Call" /\ ns[j].Func \in names

\* ComparisonCheck ran on an alerting rule whose expression parsed.
ComparisonChecked ==
    /\ problems.Reporter = ComparisonCheckName
    /\ rule.AlertingRule
    /\ ~rule.SyntaxError

Reported(text) == \E k \in 1..Len(problems.List) : problems.List[k].Text = text

ReportedAs(text, severity) ==
    /\ Reported(text)
    /\ \A k \in 1..Len(problems.List) :
          problems.List[k].Text = text => problems.List[k].Severity = severity

\* C12: ComparisonCheck reports nothing for a rule that is not an alerting
\* rule and nothing for an alerting rule with a syntax error; the fragile
\* check reports nothing for a rule with a syntax error.
C12_NoProblems ==
    /\ problems.Reporter = ComparisonCheckName /\ (~rule.AlertingRule \/ rule.SyntaxError)
          => problems.List = <<>>
    /\ problems.Reporter = FragileCheckName /\ rule.SyntaxError
          => problems.List = <<>>

\* ComparisonCheck ran on a recording rule whose expression, in an alerting
\* rule, is reported.
C12_Witness ==
    /\ problems.Reporter = ComparisonCheckName
    /\ ~rule.AlertingRule
    /\ ~rule.SyntaxError
    /\ CheckAnyRule(rule, nodes) # <<>>

\* C13: for an alerting rule whose outermost binary operator is or, the
\* "will always fire" problem is reported exactly when at least one side
\* contains no comparison or unless and neither side contains a call of
\* absent; it is a Bug when either side is a call of vector and a Warning
\* otherwise.
C13_OrAlwaysFires ==
    LET n == HasOuterBinaryExpr(nodes, Len(nodes))
        l == FirstArg(nodes, n)
        r == LastArg(nodes, n)
    IN ComparisonChecked /\ n # 0 /\ nodes[n].Op = "LOR" =>
          /\ Reported("always fire") <=>
                /\ ~ContainsCondition(nodes, l) \/ ~ContainsCondition(nodes, r)
                /\ ~ContainsCall(nodes, l, {"absent"})
                /\ ~ContainsCall(nodes, r, {"absent"})
          /\ Reported("always fire") =>
                ReportedAs("always fire",
                           IF \E s \in {l, r} : nodes[s].kind = "Call" /\ nodes[s].Func = "vector"
                           THEN "Bug" ELSE "Warning")

\* up or vector(1) was checked and reported as a Bug.
C13_Witness ==
    LET n == HasOuterBinaryExpr(nodes, Len(nodes)) IN
    /\ ComparisonChecked
    /\ n # 0
    /\ nodes[n].Op = "LOR"
    /\ nodes[LastArg(nodes, n)].kind = "Call"
    /\ nodes[LastArg(nodes, n)].Func = "vector"
    /\ ReportedAs("always fire", "Bug")

\* C14: when any binary expression of an alerting rule is a comparison with
\* the bool modifier and neither of its operands contains another comparison,
\* a Bug about the bool modifier is reported.
C14_BoolModifier ==
    ComparisonChecked =>
       \A j \in 1..Len(nodes) :
          /\ nodes[j].kind = "BinaryExpr"
          /\ nodes[j].Op \in ComparisonOps
          /\ nodes[j].ReturnBool
          /\ ~ContainsCondition(nodes, FirstArg(nodes, j))
          /\ ~ContainsCondition(nodes, LastArg(nodes, j))
          => ReportedAs("bool modifier", "Bug")

\* C15: for an alerting rule the "doesn't have any condition" Warning is
\* reported exactly when the expression contains no comparison, no unless
\* and no call of absent or absent_over_time.
C15_NoCondition ==
    ComparisonChecked =>
       (ReportedAs("no condition", "Warning") <=>
           /\ ~ContainsCondition(nodes, Len(nodes))
           /\ ~ContainsCall(nodes, Len(nodes), {"absent", "absent_over_time"}))

\* The fragile check ran on a rule whose expression parsed.
FragileChecked == problems.Reporter = FragileCheckName /\ ~rule.SyntaxError

\* The texts of the reported problems that are among texts, in order.
ReportedTexts(texts) ==
    LET list == SelectSeq(problems.List, LAMBDA q : q.Text \in texts)
    IN [k \in 1..Len(list) |-> list[k].Text]

\* The node that side i of a binary expression is, inside its parentheses.
SideNode(i) ==
    CHOOSE j \in Subtree(nodes, i) :
       /\ nodes[j].kind # "ParenExpr"
       /\ \A k \in (j + 1)..i : nodes[k].kind = "ParenExpr"

\* The side is an aggregation using without(...).
AggregatesWithout(i) ==
    nodes[SideNode(i)].kind = "AggregateExpr" /\ nodes[SideNode(i)].Without

\* The labels the aggregation of side i is without.
WithoutSet(i) == Range(nodes[SideNode(i)].Grouping)

SelectorsBelow(i) ==
    {nodes[j].LabelMatchers : j \in {k \in Subtree(nodes, i) : nodes[k].kind = "VectorSelector"}}

\* An arithmetic binary node with two vector sides, one of them an
\* aggregation using without(...), whose sides do not aggregate identical
\* selectors without identical sets of labels.
AsymmetricWithout(i) ==
    LET l == FirstArg(nodes, i)
        r == LastArg(nodes, i)
    IN /\ nodes[i].kind = "BinaryExpr"
       /\ nodes[i].Op \in ArithmeticOps
       /\ nodes[l].vt = "vector" /\ nodes[r].vt = "vector"
       /\ AggregatesWithout(l) \/ AggregatesWithout(r)
       /\ ~ /\ AggregatesWithout(l) /\ AggregatesWithout(r)
            /\ SelectorsBelow(l) = SelectorsBelow(r)
            /\ WithoutSet(l) = WithoutSet(r)

MatchesOn(i) == nodes[i].HasVectorMatching /\ nodes[i].VectorMatching.On

\* C16 as stated: the fragile check reports one Warning about without() for
\* every arithmetic binary node with two vector sides, one of them an
\* aggregation using without(...), whose sides do not derive from identical
\* selectors with identical without sets, and no other such Warning.
C16_WithoutInBinary ==
    FragileChecked =>
       /\ Len(ReportedTexts({"without"}))
             = Cardinality({i \in 1..Len(nodes) : AsymmetricWithout(i)})
       /\ \A k \in 1..Len(problems.List) : problems.List[k].Severity = "Warning"

\* C16, amended: the same, for the binary nodes that do not match with
\* on(...); a node matching with on(...) is not reported.
C16_WithoutInBinaryNotOn ==
    FragileChecked =>
       /\ Len(ReportedTexts({"without"}))
             = Cardinality({i \in 1..Len(nodes) : AsymmetricWithout(i) /\ ~MatchesOn(i)})
       /\ \A k \in 1..Len(problems.List) : problems.List[k].Severity = "Warning"

\* foo + sum without(a)(foo) was checked and reported.
C16_Witness ==
    /\ FragileChecked
    /\ \E i \in 1..Len(nodes) : AsymmetricWithout(i) /\ ~MatchesOn(i)
    /\ Reported("without")

\* C17: the fragile check reports one Warning for every topk or bottomk that
\* is not nested inside another aggregation, in order of appearance, and
\* none for a topk or bottomk inside an aggregation.
Unaggregated ==
    SelectSeq([i \in 1..Len(nodes) |-> i],
              LAMBDA i : /\ nodes[i].kind = "AggregateExpr"
                         /\ nodes[i].Op \in {"topk", "bottomk"}
                         /\ ~\E k \in (i + 1)..Len(nodes) :
                               /\ i \in Subtree(nodes, k)
                               /\ nodes[k].kind = "AggregateExpr")

C17_TopkReported ==
    FragileChecked =>
       ReportedTexts({"topk", "bottomk"})
          = [k \in 1..Len(Unaggregated) |-> nodes[Unaggregated[k]].Op]

\* topk(1, foo) or bottomk(1, foo) was checked: two problems, in that order.
C17_Witness ==
    /\ FragileChecked
    /\ ReportedTexts({"topk", "bottomk"}) = <<"topk", "bottomk">>

\* ---------------------------------------------------------------------------
\* Properties of the entries readRules returns.

\* The owner the file comments name: the last file/owner comment.
FileOwner ==
    LET owners == SelectSeq(file.fileComments, LAMBDA c : c.Type = "FileOwnerType")
    IN IF owners = <<>> THEN "" ELSE owners[Len(owners)].Value

\* The entries that were there before the parser ran: one for each invalid
\* comment.
InvalidComments ==
    Len(SelectSeq(file.fileComments, LAMBDA c : c.Type = "InvalidComment"))

\* readRules returned after the rule parser failed on the body of the file.
ParseFailed ==
    /\ returned.called
    /\ file.readErr = ""
    /\ ~file.Ignored
    /\ file.parseErr # ""

\* C18: when the rule parser fails on the body of a file, readRules returns
\* a nil error and appends exactly one entry: its PathError is the parse
\* error, it has no rule, its Owner is the file owner and its ModifiedLines
\* are the lines 1..TotalLines; no entry carries a rule.
C18_ParseError ==
    ParseFailed =>
       LET es == returned.entries IN
       /\ returned.err = ""
       /\ Len(es) = InvalidComments + 1
       /\ es[Len(es)].PathError = file.parseErr
       /\ es[Len(es)].Rule = NoRule
       /\ es[Len(es)].Owner = FileOwner
       /\ es[Len(es)].ModifiedLines = [k \in 1..file.TotalLines |-> k]
       /\ \A k \in 1..Len(es) : es[k].Rule.Zero

\* The parser failed on a file of several lines that names its owner and
\* whose body held rules.
C18_Witness ==
    /\ ParseFailed
    /\ file.TotalLines >= 2
    /\ FileOwner # ""
    /\ file.rules # <<>>

\* ---------------------------------------------------------------------------
\* Properties of constant folding.

\* The root is a binary operator between two constants.
FoldsConstants ==
    /\ nodes # <<>>
    /\ Root.kind = "BinaryExpr"
    /\ Len(LeftSources) = 1 /\ LeftSources[1].Type = "NumberSource"
    /\ Len(RightSources) = 1 /\ RightSources[1].Type = "NumberSource"

\* lv op rv as a comparison of float64 values: every comparison with NaN is
\* false, except != which is true.
Holds(op, lv, rv) ==
    CASE op = "EQLC" -> FloatEq(lv, rv)
      [] op = "NEQ" -> ~FloatEq(lv, rv)
      [] op = "LTE" -> FloatLess(lv, rv) \/ FloatEq(lv, rv)
      [] op = "LSS" -> FloatLess(lv, rv)
      [] op = "GTE" -> FloatLess(rv, lv) \/ FloatEq(lv, rv)
      [] op = "GTR" -> FloatLess(rv, lv)

Arithmetic(op, lv, rv) ==
    CASE op = "ADD" -> FloatAdd(lv, rv)
      [] op = "SUB" -> FloatSub(lv, rv)
      [] op = "MUL" -> FloatMul(lv, rv)
      [] op = "DIV" -> FloatDiv(lv, rv)
      [] op = "MOD" -> FloatMod(lv, rv)
      [] op = "POW" -> FloatPow(lv, rv)

\* C21: folding lv op rv gives, for + - * / % ^, the arithmetic value with
\* IsDead unchanged; for a comparison, lv with IsDead true when the
\* comparison is false and unchanged when it is true; for any other
\* operator, lv with IsDead unchanged.
C21_StaticReturn ==
    FoldsConstants =>
       LET lv == LeftSources[1].ReturnedNumbers[1]
           rv == RightSources[1].ReturnedNumbers[1]
           isDead == LeftSources[1].IsDead
       IN /\ Len(src) = 1
          /\ src[1].ReturnedNumbers =
                <<IF Root.Op \in {"ADD", "SUB", "MUL", "DIV", "MOD", "POW"}
                  THEN Arithmetic(Root.Op, lv, rv) ELSE lv>>
          /\ src[1].IsDead =
                IF Root.Op \in ComparisonOps
                THEN isDead \/ ~Holds(Root.Op, lv, rv)
                ELSE isDead

\* ---------------------------------------------------------------------------
\* Properties of binary expressions with vector matching and of aggregations.

\* The root is a binary expression with vector matching of cardinality card.
Matches(cards) ==
    /\ nodes # <<>>
    /\ Root.kind = "BinaryExpr"
    /\ Root.HasVectorMatching
    /\ Root.VectorMatching.Card \in cards

\* s is the source o of an operand, whatever labels were added or removed.
Emitted(s, o) ==
    /\ s.Type = o.Type
    /\ s.Returns = o.Returns
    /\ s.Selectors = o.Selectors
    /\ s.Call = o.Call
    /\ s.AlwaysReturns = o.AlwaysReturns
    /\ s.ReturnedNumbers = o.ReturnedNumbers

\* C22: a many-to-many binary expression emits the sources of its lhs only
\* for and / unless; for or it emits those of the lhs and then those of the
\* rhs, each rhs source dead when every lhs source always returns and with
\* its own IsDead otherwise.
C22_ManyToMany ==
    Matches({"many-to-many"}) =>
       LET L == LeftSources
           R == RightSources
           n == Len(L)
       IN /\ Len(src) = IF Root.Op = "LOR" THEN n + Len(R) ELSE n
          /\ \A l \in 1..n : Emitted(src[l], L[l])
          /\ Root.Op = "LOR" =>
                \A r \in 1..Len(R) :
                   /\ Emitted(src[n + r], R[r])
                   /\ src[n + r].IsDead =
                         IF \A l \in 1..n : L[l].AlwaysReturns THEN TRUE ELSE R[r].IsDead

\* foo or (vector(1) == 2): the lhs can be empty and the rhs source keeps
\* the IsDead the comparison gave it.
C22_Witness ==
    /\ Matches({"many-to-many"})
    /\ Root.Op = "LOR"
    /\ \E l \in 1..Len(LeftSources) : ~LeftSources[l].AlwaysReturns
    /\ \E r \in 1..Len(RightSources) :
          RightSources[r].IsDead /\ src[Len(LeftSources) + r].IsDead

\* C23: when a binary expression with one-to-one or many-to-many matching
\* carries on(L), every source derived from its lhs has FixedLabels, every
\* label of L in IncludedLabels, no label of L in ExcludedLabels or as a key
\* of ExcludeReason, and the reason of on(...) under the empty key.
C23_OnProjection ==
    Matches({"one-to-one", "many-to-many"}) /\ Root.VectorMatching.On =>
       \A l \in 1..Len(LeftSources) :
          LET s == src[l]
              names == Range(Root.VectorMatching.MatchingLabels)
          IN /\ s.FixedLabels
             /\ names \subseteq Range(s.IncludedLabels)
             /\ names \cap Range(s.ExcludedLabels) = {}
             /\ \A e \in s.ExcludeReason : e.key \notin names
             /\ \E e \in s.ExcludeReason : e.key = "" /\ e.Reason = "on"

\* C24: every source emitted for an aggregation, topk and bottomk included,
\* has kind Aggregate, returns a vector and refers to no call.
C24_AggregateSources ==
    nodes # <<>> /\ Root.kind = "AggregateExpr" =>
       \A s \in Sources :
          /\ s.Type = "AggregateSource"
          /\ s.Returns = "vector"
          /\ s.Call = 0

\* C26: no source is both dead and always returning.
C26_DeadNeverReturns ==
    \A s \in Sources : ~(s.IsDead /\ s.AlwaysReturns)

\* C27: no label is both in IncludedLabels and in ExcludedLabels of a
\* source.
C27_IncludedNotExcluded ==
    \A s \in Sources : Range(s.IncludedLabels) \cap Range(s.ExcludedLabels) = {}

\* ---------------------------------------------------------------------------
\* Properties of the checks readRules disables and of the owners it names.

\* readRules returned the entries of the rules of the file.
RulesRead ==
    /\ returned.called
    /\ file.readErr = ""
    /\ ~file.Ignored
    /\ file.parseErr = ""

\* The checks the file comments disable: every file/disable and every
\* file/snooze that ends after now, in order.
Disabling ==
    LET cs == SelectSeq(file.fileComments,
                        LAMBDA c : \/ c.Type = "FileDisableType"
                                   \/ c.Type = "FileSnoozeType" /\ c.Until > file.now)
    IN [k \in 1..Len(cs) |-> cs[k].Value]

\* s without the elements that occurred before.
FirstOccurrences(s) ==
    LET keep == SelectSeq([k \in 1..Len(s) |-> k], LAMBDA k : \A j \in 1..(k - 1) : s[j] # s[k])
    IN [k \in 1..Len(keep) |-> s[keep[k]]]

\* C25: every rule entry of a file carries the same DisabledChecks: each
\* file/disable match and each file/snooze match whose Until is strictly
\* after the current time, without duplicates, in order of first occurrence;
\* a file/snooze that ended at or before the current time adds nothing.
C25_DisabledChecks ==
    RulesRead =>
       \A k \in 1..Len(returned.entries) :
          ~returned.entries[k].Rule.Zero =>
             returned.entries[k].DisabledChecks = FirstOccurrences(Disabling)

\* Two rules were read from a file with a file/disable and a file/snooze
\* that ends at the current instant.
C25_Witness ==
    /\ RulesRead
    /\ Len(file.rules) = 2
    /\ \E k \in 1..Len(file.fileComments) :
          /\ file.fileComments[k].Type = "FileSnoozeType"
          /\ file.fileComments[k].Until = file.now
    /\ \E k \in 1..Len(file.fileComments) : file.fileComments[k].Type = "FileDisableType"
    /\ Len(returned.entries[Len(returned.entries)].DisabledChecks) = 1

\* C28: the Owner of every entry does not depend on where the file/owner
\* comment sits: a rule entry carries the owner of its rule/owner comment,
\* else the file owner; the entries of invalid comments, of an ignored file
\* and of a parse error carry the file owner.
C28_Owner ==
    returned.called /\ file.readErr = "" =>
       \A k \in 1..Len(returned.entries) :
          LET e == returned.entries[k] IN
          e.Owner = IF ~e.Rule.Zero /\ e.Rule.Owner # "" THEN e.Rule.Owner ELSE FileOwner

====
